---------------------------- MODULE Spec2Model ----------------------------
(***************************************************************************)
(* Shortest-path engine of spAlgo: the priority-queue family (sorted list, *)
(* pairing heap, d-ary implicit heaps), the three search shells (Search,   *)
(* OwnedLookup, NoLookup) and the Dijkstra drivers (sssp, sp_naiv, sp_bi). *)
(*                                                                         *)
(* Vertices are the ids 1..NumV; 0 is UNDEFINED / the None link.           *)
(* A queue, a shell and a graph are values; every operation of the source  *)
(* is an operator from values to values, and the actions apply them. An    *)
(* operator named X_with takes the result of a call X makes as a           *)
(* parameter: it is the rest of X after that call.                         *)
(***************************************************************************)
EXTENDS Integers, Sequences, FiniteSets, TLC

\* ------------------------------------------------------------------ bounds
\* number of vertex ids of a graph
NumV == 3
\* largest edge weight
MaxW == 2
\* largest number of edges of a graph
MaxEdges == 3

Vertices == 1..NumV
Weights == 0..MaxW

\* dimacs.rs: pub const UNDEFINED: Vertex = Vertex(0)
UNDEFINED == 0

\* u32::MAX, "no value yet" of path_len and of the old heaps' dist. The model
\* takes the largest integer TLC holds (2^31 - 1) for it; no key and no sum
\* of the bounded graphs comes near either number.
U32Max == 2147483647

Min2(a, b) == IF a <= b THEN a ELSE b

\* ------------------------------------------------------------ pairing heap
\* A heap is [nodes, main, aux]: nodes is the arena of all nodes ever
\* allocated (an Rc keeps a node alive while a handle to it exists), a Link
\* is an index into it, 0 is None.

Node(id, key, next) == [id |-> id, key |-> key, parent |-> 0, child |-> 0, next |-> next]

\* impl From<Vertex> for PairingHeap
PairingHeap_from(value) ==
    IF value = UNDEFINED
    THEN [nodes |-> << >>, main |-> 0, aux |-> 0]
    ELSE [nodes |-> << Node(value, 0, 0) >>, main |-> 1, aux |-> 0]

\* PairingHeap::is_empty
PairingHeap_is_empty(h) == h.main = 0

\* merge_pair, a.key < b.key: b becomes the leftmost child of a
link_under_a(ns, a, b, remainder) ==
    [[ns EXCEPT ![b].next = ns[a].child, ![b].parent = a]
        EXCEPT ![a].child = b, ![a].next = remainder]

\* merge_pair, otherwise: a becomes the leftmost child of b
link_under_b(ns, a, b) ==
    [[ns EXCEPT ![a].next = ns[b].child, ![a].parent = b]
        EXCEPT ![b].child = a]

\* merge_pair with the comparison turned round: the greater key becomes the root
merge_pair_greater(ns, first) ==
    IF first = 0 THEN [ns |-> ns, merged |-> 0, rem |-> 0]
    ELSE IF ns[first].next = 0 THEN [ns |-> ns, merged |-> first, rem |-> 0]
    ELSE IF ns[first].key > ns[ns[first].next].key
         THEN [ns |-> link_under_a(ns, first, ns[first].next, ns[ns[first].next].next),
               merged |-> first, rem |-> ns[ns[first].next].next]
         ELSE [ns |-> link_under_b(ns, first, ns[first].next),
               merged |-> ns[first].next, rem |-> ns[ns[first].next].next]

\* fn merge_pair(first: Link) -> (Link, Link): a = first, b = a.next,
\* remainder = b.next; ties make b the root
merge_pair(ns, first) ==
    IF first = 0 THEN [ns |-> ns, merged |-> 0, rem |-> 0]
    ELSE IF ns[first].next = 0 THEN [ns |-> ns, merged |-> first, rem |-> 0]
    ELSE IF ns[first].key < ns[ns[first].next].key
         THEN [ns |-> link_under_a(ns, first, ns[first].next, ns[ns[first].next].next),
               merged |-> first, rem |-> ns[ns[first].next].next]
         ELSE [ns |-> link_under_b(ns, first, ns[first].next),
               merged |-> ns[first].next, rem |-> ns[ns[first].next].next]

\* `merged.borrow_mut().next = ...`
set_next(ns, node, next) == [ns EXCEPT ![node].next = next]

\* fn merge_front_to_back(start: Link) -> Link
RECURSIVE merge_front_to_back(_, _)
merge_front_to_back_with(r) ==
    IF r.rem = 0 THEN [ns |-> r.ns, link |-> r.merged]
    ELSE merge_front_to_back(r.ns, r.merged)

merge_front_to_back(ns, start) == merge_front_to_back_with(merge_pair(ns, start))

\* fn multipass(start: Link) -> Link; the loop carries (current, next_round)
RECURSIVE multipass_loop(_, _, _)
multipass_with(r, next_round) ==
    IF r.merged = 0 THEN [ns |-> r.ns, link |-> 0]
    ELSE IF r.rem = 0
         THEN IF next_round = 0
              THEN [ns |-> r.ns, link |-> r.merged]
              ELSE multipass_loop(set_next(r.ns, r.merged, next_round), r.merged, 0)
         ELSE multipass_loop(set_next(r.ns, r.merged, next_round), r.rem, r.merged)

multipass_loop(ns, current, next_round) ==
    multipass_with(merge_pair(ns, current), next_round)

multipass(ns, start) == multipass_loop(ns, start, 0)

\* fn two_pass(start: Link) -> Link; the loop carries (current, second_round)
RECURSIVE two_pass_loop(_, _, _)
two_pass_with(r, second_round) ==
    IF r.merged = 0 THEN [ns |-> r.ns, link |-> 0]
    ELSE IF r.rem = 0
         THEN IF second_round = 0
              THEN [ns |-> r.ns, link |-> r.merged]
              ELSE merge_front_to_back(set_next(r.ns, r.merged, second_round), r.merged)
         ELSE two_pass_loop(set_next(r.ns, r.merged, second_round), r.rem, r.merged)

two_pass_loop(ns, current, second_round) ==
    two_pass_with(merge_pair(ns, current), second_round)

two_pass(ns, start) == two_pass_loop(ns, start, 0)

\* "abandon children": clear the parent of every node of a sibling list
RECURSIVE abandon(_, _)
abandon(ns, curr) ==
    IF curr = 0 THEN ns
    ELSE abandon([ns EXCEPT ![curr].parent = 0], ns[curr].next)

\* the result of a pop: [q, some, key, value, node]
NonePopped(q) == [q |-> q, some |-> FALSE, key |-> 0, value |-> 0, node |-> 0]

SomePopped(q, key, value, node) ==
    [q |-> q, some |-> TRUE, key |-> key, value |-> value, node |-> node]

\* PairingHeap::pop, "join the family": t = two_pass(scattered)
pop_family(key, id, top, t) ==
    SomePopped([nodes |-> t.ns, main |-> t.link, aux |-> 0], key, id, top)

\* PairingHeap::pop, from `if let Some(top) = combine`; c = (nodes, combine)
pop_top(h, c) ==
    IF c.link = 0
    THEN NonePopped([nodes |-> c.ns, main |-> h.main, aux |-> 0])
    ELSE pop_family(c.ns[c.link].key, c.ns[c.link].id, c.link,
                    two_pass(abandon([c.ns EXCEPT ![c.link].child = 0],
                                     c.ns[c.link].child),
                             c.ns[c.link].child))

merged_link(m) == [ns |-> m.ns, link |-> m.merged]

\* PairingHeap::pop, `let combine = match (self.main, aux_joined)`; j = aux_joined
pop_combine(h, j) ==
    pop_top(h, IF h.main # 0
               THEN merged_link(merge_pair(set_next(j.ns, h.main, j.link), h.main))
               ELSE j)

\* PairingHeap::pop
PairingHeap_pop(h) == pop_combine(h, multipass(h.nodes, h.aux))

\* PairingHeap::push; the handle is the index of the new node
PairingHeap_push(h, key, value) ==
    [q |-> [h EXCEPT !.nodes = Append(h.nodes, Node(value, key, h.aux)),
                     !.aux = Len(h.nodes) + 1],
     ref |-> Len(h.nodes) + 1]

\* PairingHeap::decrease_key, the `loop` along the parent's child list.
\* Rc<RefCell<Box<Node>>> == compares the nodes' ids (impl PartialEq for
\* Node). fuel bounds the walk: on a cyclic list the loop never ends.
RECURSIVE decrease_key_walk(_, _, _, _, _)
decrease_key_walk(ns, curr_child, target, siblings, fuel) ==
    IF ns[curr_child].next = 0 THEN [ns |-> ns, fault |-> "panic"]
    ELSE IF ns[ns[curr_child].next].id = ns[target].id
         THEN [ns |-> set_next(ns, curr_child, siblings), fault |-> "ok"]
         ELSE IF fuel = 0 THEN [ns |-> ns, fault |-> "hang"]
              ELSE decrease_key_walk(ns, ns[curr_child].next, target, siblings, fuel - 1)

\* the splice taking the target for the first child of its parent
decrease_key_splice_first(ns, parent, target, siblings) ==
    [ns |-> [ns EXCEPT ![parent].child = siblings], fault |-> "ok"]

\* PairingHeap::decrease_key, the splice out of the parent's child list
\* (target.parent already cleared in ns)
decrease_key_splice(ns, parent, target, siblings) ==
    IF ns[parent].child = 0 THEN [ns |-> ns, fault |-> "panic"]
    ELSE IF ns[ns[parent].child].id = ns[target].id
         THEN [ns |-> [ns EXCEPT ![parent].child = siblings], fault |-> "ok"]
         ELSE decrease_key_walk(ns, ns[parent].child, target, siblings, Len(ns))

\* PairingHeap::decrease_key, after the splice w: prepend to aux, set the key
decrease_key_with(h, target, key, w) ==
    IF w.fault # "ok"
    THEN [q |-> [h EXCEPT !.nodes = w.ns], fault |-> w.fault]
    ELSE [q |-> [nodes |-> [w.ns EXCEPT ![target].next = h.aux, ![target].key = key],
                 main |-> h.main, aux |-> target],
          fault |-> "ok"]

\* PairingHeap::decrease_key; the result is [q, fault]
PairingHeap_decrease_key(h, of, key) ==
    IF of = 0 THEN [q |-> h, fault |-> "panic"]
    ELSE IF h.nodes[of].parent = 0
         THEN [q |-> [h EXCEPT !.nodes[of].key = key], fault |-> "ok"]
         ELSE decrease_key_with(h, of, key,
                decrease_key_splice([h.nodes EXCEPT ![of].parent = 0],
                                    h.nodes[of].parent, of, h.nodes[of].next))

\* ------------------------------------------------------------- sorted list
\* struct Item { key, value }
Item(key, value) == [key |-> key, value |-> value]

\* impl From<Vertex> for SortetList
SortetList_from(value) == [inner |-> << Item(0, value) >>]

SortetList_is_empty(l) == l.inner = << >>

\* SortetList::pop: Vec::pop takes the last element
SortetList_pop(l) ==
    IF l.inner = << >>
    THEN NonePopped(l)
    ELSE SomePopped([inner |-> SubSeq(l.inner, 1, Len(l.inner) - 1)],
                    l.inner[Len(l.inner)].key, l.inner[Len(l.inner)].value, 0)

\* a search that answers Err(0) whatever the vector holds
binary_search_front(inner, key) == {0}

\* inner.binary_search(&item) under impl Ord for Item (other.key.cmp(&self.key)):
\* Ok(pos) for any pos holding an equal key (the slice documentation leaves open
\* which), else Err(pos) with pos the number of items of greater key. 0-based.
binary_search(inner, key) ==
    LET eq == {i \in 0..(Len(inner) - 1) : inner[i + 1].key = key}
    IN IF eq # {} THEN eq
       ELSE {Cardinality({i \in 1..Len(inner) : inner[i].key > key})}

\* Vec::insert(pos, item), pos 0-based
Vec_insert(v, pos, item) ==
    SubSeq(v, 1, pos) \o << item >> \o SubSeq(v, pos + 1, Len(v))

\* SortetList::push; pos is the answer of binary_search
SortetList_push(l, key, value, pos) ==
    [q |-> [inner |-> Vec_insert(l.inner, pos, Item(key, value))], ref |-> pos]

\* ------------------------------------------------------ d-ary implicit heaps
\* implicit_heap!(2, ..), (4, ..), (8, ..), (16, ..)
Arities == {2, 4, 8, 16}

\* A heap is [inner, lookup]: inner the array of Items (0-based in the source,
\* inner[i + 1] here), lookup the vertex -> index map of the addressable
\* flavour (-1: no entry); the simple flavour has no lookup field and
\* carries the empty map throughout.
NoEntry == [v \in Vertices |-> -1]

At(inner, i) == inner[i + 1]

Vec_swap(inner, i, j) ==
    [inner EXCEPT ![i + 1] = inner[j + 1], ![j + 1] = inner[i + 1]]

\* a swap that leaves the lookup as it was
update_swap_none(addr, lookup, parent_v, child_v, parent, child) == lookup

\* Lookup::update on a swap of parent and child (addressable flavour only)
update_swap(addr, lookup, parent_v, child_v, parent, child) ==
    IF addr THEN [[lookup EXCEPT ![parent_v] = child] EXCEPT ![child_v] = parent]
    ELSE lookup

\* ImplicitHeap::bubble_up(dirt)
RECURSIVE bubble_up(_, _, _, _)
bubble_up(k, addr, hp, child) ==
    IF child = 0 THEN hp
    ELSE
      LET parent == (child - 1) \div k
          parent_item == At(hp.inner, parent)
          child_item == At(hp.inner, child)
      IN IF parent_item.key <= child_item.key THEN hp
         ELSE bubble_up(k, addr,
                [inner |-> Vec_swap(hp.inner, parent, child),
                 lookup |-> update_swap(addr, hp.lookup, parent_item.value,
                                        child_item.value, parent, child)],
                parent)

\* the reduce closure keeping `left` whatever the keys: the first child
min_child_first(inner, left, right, end) == left

\* (base..end).reduce(|left, right| if dist(left) > dist(right) {right} else {left}):
\* the leftmost child of minimal key, -1 for an empty range
RECURSIVE min_child(_, _, _, _)
min_child(inner, left, right, end) ==
    IF right >= end THEN left
    ELSE min_child(inner,
                   IF At(inner, left).key > At(inner, right).key THEN right ELSE left,
                   right + 1, end)

\* ImplicitHeap::bubble_down, from `parent`
RECURSIVE bubble_down_from(_, _, _, _)
bubble_down_from(k, addr, hp, parent) ==
    LET n == Len(hp.inner)
        base == parent * k + 1
        end == Min2(base + k, n)
    IN IF base >= end THEN hp
       ELSE
         LET child == min_child(hp.inner, base, base + 1, end)
             parent_item == At(hp.inner, parent)
             child_item == At(hp.inner, child)
         IN IF parent_item.key <= child_item.key THEN hp
            ELSE bubble_down_from(k, addr,
                   [inner |-> Vec_swap(hp.inner, parent, child),
                    lookup |-> update_swap(addr, hp.lookup, parent_item.value,
                                           child_item.value, parent, child)],
                   child)

bubble_down(k, addr, hp) == bubble_down_from(k, addr, hp, 0)

\* From<Vertex> of a derived heap: preloaded with (0, source)
Heap_from(addr, value) ==
    [inner |-> << Item(0, value) >>,
     lookup |-> IF addr THEN [NoEntry EXCEPT ![value] = 0] ELSE NoEntry]

\* #[derive(PriorityQueue)]: is_empty
Heap_is_empty(hp) == hp.inner = << >>

\* Vec::swap_remove(0): the last element takes the place of the first
Vec_swap_remove0(inner) ==
    IF Len(inner) = 1 THEN << >>
    ELSE << inner[Len(inner)] >> \o SubSeq(inner, 2, Len(inner) - 1)

\* #[derive(PriorityQueue)]: pop (with the #update and #remove parts when the
\* struct has a lookup field)
Heap_pop(k, addr, hp) ==
    IF hp.inner = << >>
    THEN NonePopped(hp)
    ELSE SomePopped(bubble_down(k, addr,
                      [inner |-> Vec_swap_remove0(hp.inner),
                       lookup |-> IF addr
                                  THEN [[hp.lookup EXCEPT ![hp.inner[Len(hp.inner)].value] = 0]
                                           EXCEPT ![hp.inner[1].value] = -1]
                                  ELSE hp.lookup]),
                    hp.inner[1].key, hp.inner[1].value, 0)

\* #[derive(PriorityQueue)]: push (with the #insert part when the struct has
\* a lookup field)
Heap_push(k, addr, hp, key, value) ==
    LET end == Len(hp.inner)
        l1 == IF addr THEN [hp.lookup EXCEPT ![value] = end] ELSE hp.lookup
    IN [q |-> bubble_up(k, addr, [inner |-> Append(hp.inner, Item(key, value)),
                                  lookup |-> l1], end),
        ref |-> value]

\* DecreaseKey of the addressable heap: look the index up, lower the key in
\* place, bubble up; a vertex without lookup entry is left alone
Heap_decrease_key(k, hp, of, key) ==
    LET i == hp.lookup[of]
    IN IF i < 0 \/ i >= Len(hp.inner) THEN [q |-> hp, fault |-> "ok"]
       ELSE [q |-> bubble_up(k, TRUE,
                     [hp EXCEPT !.inner[i + 1].key = key], i),
             fault |-> "ok"]


\* ----------------------------------------------------------- search shells
\* A shell is [kind, k, queue, meta]. kind names the pairing of the source:
\*   "Search"        Search<PairingHeap>
\*   "OwnedLookup"   OwnedLookup<addressable heap of arity k>
\*   "NoLookupList"  NoLookup<SortetList>
\*   "NoLookupHeap"  NoLookup<simple heap of arity k>
\* meta maps a vertex to [has, link, dist, some, prev]: has says the map holds
\* an entry; Search uses (link, dist, prev), OwnedLookup (dist, prev), NoLookup
\* (some, dist, prev) for (Option<Key>, prev).
NoMeta == [has |-> FALSE, link |-> 0, dist |-> 0, some |-> FALSE, prev |-> 0]

\* struct Neighbor { to, weight }
Neighbor(to, weight) == [to |-> to, weight |-> weight]

\* impl From<(Vertex, usize)> for Search<T>: the handle of the source is a
\* node of its own (RefType::from(source)), not the node the queue holds
Search_from(source) ==
    [kind |-> "Search", k |-> 0,
     queue |-> [PairingHeap_from(source) EXCEPT !.nodes = Append(@, Node(source, 0, 0))],
     meta |-> [v \in Vertices |->
                 IF v = source
                 THEN [has |-> TRUE, link |-> 2, dist |-> 0, some |-> FALSE, prev |-> source]
                 ELSE NoMeta]]

\* impl From<(Vertex, usize)> for OwnedLookup<T>
OwnedLookup_from(k, source) ==
    [kind |-> "OwnedLookup", k |-> k,
     queue |-> Heap_from(TRUE, source),
     meta |-> [v \in Vertices |->
                 IF v = source
                 THEN [has |-> TRUE, link |-> 0, dist |-> 0, some |-> FALSE, prev |-> source]
                 ELSE NoMeta]]

\* impl From<(Vertex, usize)> for NoLookup<T>
NoLookup_from(kind, k, source) ==
    [kind |-> kind, k |-> k,
     queue |-> IF kind = "NoLookupList" THEN SortetList_from(source)
               ELSE Heap_from(FALSE, source),
     meta |-> [v \in Vertices |->
                 IF v = source
                 THEN [has |-> TRUE, link |-> 0, dist |-> 0, some |-> FALSE, prev |-> source]
                 ELSE NoMeta]]

\* The shells a search can be run with
ShellKinds ==
    {[kind |-> "Search", k |-> 0], [kind |-> "NoLookupList", k |-> 0]}
    \cup {[kind |-> "OwnedLookup", k |-> k] : k \in Arities}
    \cup {[kind |-> "NoLookupHeap", k |-> k] : k \in Arities}

\* D::from((source, size))
Shell_from(sk, source) ==
    CASE sk.kind = "Search" -> Search_from(source)
      [] sk.kind = "OwnedLookup" -> OwnedLookup_from(sk.k, source)
      [] OTHER -> NoLookup_from(sk.kind, sk.k, source)

\* the result of an explore: [sh, fault]
Explored(sh, fault) == [sh |-> sh, fault |-> fault]

\* Search::explore, after self.queue.decrease_key(link, alt) = d
Search_explore_decreased(sh, from, alt, to, d) ==
    IF d.fault # "ok" THEN Explored([sh EXCEPT !.queue = d.q], d.fault)
    ELSE Explored([sh EXCEPT !.queue = d.q,
                             !.meta[to].dist = alt,
                             !.meta[to].prev = from], "ok")

\* Search::explore, after self.queue.push(alt, e.to) = p
Search_explore_pushed(sh, from, alt, to, p) ==
    Explored([sh EXCEPT !.queue = p.q,
                        !.meta[to] = [has |-> TRUE, link |-> p.ref, dist |-> alt,
                                      some |-> FALSE, prev |-> from]], "ok")

\* Search::explore lowering the key also when alt equals the recorded distance
Search_explore_le(sh, from, key, e) ==
    IF sh.meta[e.to].has
    THEN IF key + e.weight <= sh.meta[e.to].dist
         THEN Search_explore_decreased(sh, from, key + e.weight, e.to,
                PairingHeap_decrease_key(sh.queue, sh.meta[e.to].link, key + e.weight))
         ELSE Explored(sh, "ok")
    ELSE Search_explore_pushed(sh, from, key + e.weight, e.to,
           PairingHeap_push(sh.queue, key + e.weight, e.to))

\* Search::explore
Search_explore(sh, from, key, e) ==
    IF sh.meta[e.to].has
    THEN IF key + e.weight < sh.meta[e.to].dist
         THEN Search_explore_decreased(sh, from, key + e.weight, e.to,
                PairingHeap_decrease_key(sh.queue, sh.meta[e.to].link, key + e.weight))
         ELSE Explored(sh, "ok")
    ELSE Search_explore_pushed(sh, from, key + e.weight, e.to,
           PairingHeap_push(sh.queue, key + e.weight, e.to))

\* OwnedLookup::explore, after the queue operation that gave the queue q
OwnedLookup_explore_with(sh, from, alt, to, q) ==
    Explored([sh EXCEPT !.queue = q,
                        !.meta[to] = [has |-> TRUE, link |-> 0, dist |-> alt,
                                      some |-> FALSE, prev |-> from]], "ok")

\* OwnedLookup::explore recording the edge weight instead of alt
OwnedLookup_explore_weight(sh, from, key, e) ==
    IF sh.meta[e.to].has
    THEN IF key + e.weight < sh.meta[e.to].dist
         THEN OwnedLookup_explore_with(sh, from, e.weight, e.to,
                Heap_decrease_key(sh.k, sh.queue, e.to, e.weight).q)
         ELSE Explored(sh, "ok")
    ELSE OwnedLookup_explore_with(sh, from, e.weight, e.to,
           Heap_push(sh.k, TRUE, sh.queue, e.weight, e.to).q)

\* OwnedLookup::explore
OwnedLookup_explore(sh, from, key, e) ==
    IF sh.meta[e.to].has
    THEN IF key + e.weight < sh.meta[e.to].dist
         THEN OwnedLookup_explore_with(sh, from, key + e.weight, e.to,
                Heap_decrease_key(sh.k, sh.queue, e.to, key + e.weight).q)
         ELSE Explored(sh, "ok")
    ELSE OwnedLookup_explore_with(sh, from, key + e.weight, e.to,
           Heap_push(sh.k, TRUE, sh.queue, key + e.weight, e.to).q)

\* The positions SortetList::push may insert at (one answer for the heaps)
PushChoices(sh, key) ==
    IF sh.kind = "NoLookupList" THEN binary_search(sh.queue.inner, key) ELSE {0}

\* the entry of e.to with prev set to `from` whether or not the key is settled
NoLookup_entry_always(m, from) ==
    IF ~m.has THEN [has |-> TRUE, link |-> 0, dist |-> 0, some |-> FALSE, prev |-> from]
    ELSE [m EXCEPT !.prev = from]

\* NoLookup::explore, the entry of e.to: or_insert((None, from)), then
\* `if let None = key { *prev = from }`
NoLookup_entry(m, from) ==
    IF ~m.has THEN [has |-> TRUE, link |-> 0, dist |-> 0, some |-> FALSE, prev |-> from]
    ELSE IF ~m.some THEN [m EXCEPT !.prev = from]
    ELSE m

\* NoLookup::explore; pos is the answer of the list's binary search
NoLookup_explore(sh, from, key, e, pos) ==
    Explored([sh EXCEPT !.queue = IF sh.kind = "NoLookupList"
                                  THEN SortetList_push(sh.queue, key + e.weight, e.to, pos).q
                                  ELSE Heap_push(sh.k, FALSE, sh.queue, key + e.weight, e.to).q,
                        !.meta[e.to] = NoLookup_entry(sh.meta[e.to], from)], "ok")

\* Dijkstra::explore of the shell at hand
explore(sh, from, key, e, pos) ==
    CASE sh.kind = "Search" -> Search_explore(sh, from, key, e)
      [] sh.kind = "OwnedLookup" -> OwnedLookup_explore(sh, from, key, e)
      [] OTHER -> NoLookup_explore(sh, from, key, e, pos)

\* PriorityQueue::pop of the shell's queue
Queue_pop(kind, k, q) ==
    CASE kind = "Search" -> PairingHeap_pop(q)
      [] kind = "OwnedLookup" -> Heap_pop(k, TRUE, q)
      [] kind = "NoLookupList" -> SortetList_pop(q)
      [] OTHER -> Heap_pop(k, FALSE, q)

\* the result of a pop_min: [sh, some, key, value, fault]
NoneMin(sh, fault) == [sh |-> sh, some |-> FALSE, key |-> 0, value |-> 0, fault |-> fault]

SomeMin(sh, key, value) ==
    [sh |-> sh, some |-> TRUE, key |-> key, value |-> value, fault |-> "ok"]

\* the settling that marks the entry without storing the popped key
NoLookup_settle_unkeyed(sh, r) ==
    SomeMin([sh EXCEPT !.queue = r.q,
                       !.meta[r.value].some = TRUE], r.key, r.value)

\* NoLookup::pop_min, `*key = Some(next.0); return Some(next)`
NoLookup_settle(sh, r) ==
    SomeMin([sh EXCEPT !.queue = r.q,
                       !.meta[r.value].some = TRUE,
                       !.meta[r.value].dist = r.key], r.key, r.value)

\* NoLookup::pop_min without the skip of expanded items
NoLookup_pop_min_noskip(sh) ==
    IF sh.queue.inner = << >> THEN NoneMin(sh, "ok")
    ELSE NoLookup_settle(sh, Queue_pop(sh.kind, sh.k, sh.queue))

\* NoLookup::pop_min, the body of `while let Some(next) = self.queue.pop()`
RECURSIVE NoLookup_pop_min(_)
NoLookup_pop_min_with(sh, r) ==
    IF ~r.some THEN NoneMin([sh EXCEPT !.queue = r.q], "ok")
    ELSE IF ~sh.meta[r.value].has THEN NoneMin([sh EXCEPT !.queue = r.q], "panic")
    ELSE IF sh.meta[r.value].some THEN NoLookup_pop_min([sh EXCEPT !.queue = r.q])
    ELSE NoLookup_settle(sh, r)

\* NoLookup::pop_min: pop until an item of a vertex without settled key comes
NoLookup_pop_min(sh) == NoLookup_pop_min_with(sh, Queue_pop(sh.kind, sh.k, sh.queue))

\* Search::pop_min and OwnedLookup::pop_min, after self.queue.pop() = r
Forward_pop_min_with(sh, r) ==
    [sh |-> [sh EXCEPT !.queue = r.q], some |-> r.some, key |-> r.key,
     value |-> r.value, fault |-> "ok"]

\* Search::pop_min and OwnedLookup::pop_min: self.queue.pop()
Forward_pop_min(sh) == Forward_pop_min_with(sh, Queue_pop(sh.kind, sh.k, sh.queue))

\* Dijkstra::pop_min of the shell at hand
pop_min(sh) ==
    IF sh.kind \in {"Search", "OwnedLookup"} THEN Forward_pop_min(sh)
    ELSE NoLookup_pop_min(sh)

\* Dijkstra::get_meta: Option<(dist, prev)>; Search and OwnedLookup answer
\* for every vertex with an entry, NoLookup for those with a settled key
get_meta(sh, target) ==
    [some |-> IF sh.kind \in {"Search", "OwnedLookup"}
              THEN sh.meta[target].has
              ELSE sh.meta[target].has /\ sh.meta[target].some,
     dist |-> sh.meta[target].dist,
     prev |-> sh.meta[target].prev]

\* an Option<u32>
NoneDist == [some |-> FALSE, dist |-> 0]

\* Dijkstra::get_dist: Option<u32>
get_dist(sh, target) ==
    IF get_meta(sh, target).some
    THEN [some |-> TRUE, dist |-> sh.meta[target].dist]
    ELSE NoneDist

\* an Option<Route> with the way the lookup ended: [some, path, fault]
NonePath(fault) == [some |-> FALSE, path |-> << >>, fault |-> fault]

\* Dijkstra::get_path: Option<Route>, the path with the target first. A
\* predecessor cycle that misses the source makes the loop run for ever
\* ("hang"); fuel bounds the walk.
RECURSIVE get_path_loop(_, _, _, _)
get_path_loop(sh, head, path, fuel) ==
    IF ~get_meta(sh, head).some THEN NonePath("ok")
    ELSE IF head = sh.meta[head].prev
         THEN [some |-> TRUE, path |-> Append(path, head), fault |-> "ok"]
         ELSE IF fuel = 0 THEN NonePath("hang")
              ELSE get_path_loop(sh, sh.meta[head].prev, Append(path, head), fuel - 1)

get_path(sh, target) == get_path_loop(sh, target, << >>, NumV)

\* -------------------------------------------------------------------- graph
\* struct Edge { from, to, weight }
Edge(from, to, weight) == [from |-> from, to |-> to, weight |-> weight]

AllEdges == {Edge(f, t, w) : f \in Vertices, t \in Vertices, w \in Weights}

\* The edge streams a graph is built from: every sequence of at most n
\* edges (parallel edges and self-loops included)
SeqsUpTo(S, n) == UNION {[1..m -> S] : m \in 0..n}

EdgeLists == SeqsUpTo(AllEdges, MaxEdges)

\* new(n, edges) putting each Neighbor in front of its bucket
RECURSIVE bucket_front(_, _)
bucket_front(edges, u) ==
    IF edges = << >> THEN << >>
    ELSE bucket_front(Tail(edges), u) \o
         (IF Head(edges).from = u
          THEN << Neighbor(Head(edges).to, Head(edges).weight) >>
          ELSE << >>)

\* impl StructuredEdges for NeighborList: new(n, edges) appends Neighbor::from(e)
\* to the bucket of e.from, in input order
RECURSIVE bucket(_, _)
bucket(edges, u) ==
    IF edges = << >> THEN << >>
    ELSE (IF Head(edges).from = u
          THEN << Neighbor(Head(edges).to, Head(edges).weight) >>
          ELSE << >>) \o bucket(Tail(edges), u)

StructuredEdges_new(edges) == [u \in Vertices |-> bucket(edges, u)]

\* StructuredEdges::get_neighbors
get_neighbors(g, u) == g[u]

\* DicirectionalList::new: forward from the edges, backward from the edges reversed
reversed_edges(edges) ==
    [i \in 1..Len(edges) |-> Edge(edges[i].to, edges[i].from, edges[i].weight)]

DicirectionalList_new(edges) ==
    [forward |-> StructuredEdges_new(edges),
     backward |-> StructuredEdges_new(reversed_edges(edges))]

\* The graphs of the model
Graphs == {StructuredEdges_new(es) : es \in EdgeLists}


\* -------------------------------------------------------------------- state
VARIABLES
    graph,      \* the NeighborList the search runs on (the forward list of sp_bi)
    back,       \* the backward NeighborList of sp_bi
    src,        \* the source vertex the shell was built from
    tgt,        \* the target vertex of sp_naiv / sp_bi (UNDEFINED under sssp)
    sh,         \* the shell of the search (the source-side shell of sp_bi)
    sh2,        \* the target-side shell of sp_bi
    pc,         \* where the driver stands
    cur,        \* the (dist, u) the driver popped last from sh
    cur2,       \* the (dist, v) sp_bi popped last from sh2
    idx,        \* the number of neighbors explored so far in the running loop
    emitted,    \* every (key, value) pop_min of sh returned, in order
    fault,      \* "ok", or how the run ended abnormally ("panic", "hang")
    result,     \* what the driver returned
    naiv,       \* what sp_naiv returned, kept while sp_bi runs on the same input
    path_len,   \* sp_bi: the best candidate length
    bridge,     \* sp_bi: the vertex of the best candidate
    pq,         \* a queue used alone: [kind, k, queue]
    held,       \* what the caller knows: the items pushed to pq, the cells of a matrix file
    last,       \* the last call on pq (or on the cost matrix) and what it returned
    calls,      \* the number of calls made on pq (or on the cost matrix)
    edges,      \* the edge stream a graph is built from
    size,       \* the `size` argument of apsp / warshall_floyd / CostMatrix::new
    build,      \* the build profile: "debug" checks integer overflow, "release" wraps
    tasks,      \* the tasks of the running parallel for_each, one per index
    wtr,        \* apsp: the Mutex<BufWriter<File>> of the output file
    count,      \* apsp: the AtomicU32 progress counter
    swaps,      \* warshall_floyd: the Mutex<Option<File>> of every tile
    phase,      \* warshall_floyd: the round at hand and what has started in it
    cost        \* the CostMatrix at hand: [inner, size]

vars == << graph, back, src, tgt, sh, sh2, pc, cur, cur2, idx, emitted, fault,
           result, naiv, path_len, bridge, pq, held, last, calls,
           edges, size, build, tasks, wtr, count, swaps, phase, cost >>

\* an Option<(u32, Route)>
NoResult == [some |-> FALSE, dist |-> 0, path |-> << >>]

\* a (dist, vertex) pair before the first pop
NoPop == [dist |-> 0, u |-> UNDEFINED]

\* a search shell that is not in use
NoShell == [kind |-> "None", k |-> 0, queue |-> << >>, meta |-> << >>]

\* the last call before any call
NoCall == [op |-> "none", some |-> FALSE, key |-> 0, value |-> 0, node |-> 0,
           before |-> << >>]

\* the variables of sp_bi and of the queue used alone, at rest
bi_idle ==
    /\ back = << >>
    /\ sh2 = NoShell
    /\ cur2 = NoPop
    /\ naiv = NoResult
    /\ path_len = U32Max
    /\ bridge = UNDEFINED

queue_idle ==
    /\ pq = NoShell
    /\ held = << >>
    /\ last = NoCall
    /\ calls = 0

search_idle ==
    /\ graph = << >>
    /\ src = UNDEFINED
    /\ tgt = UNDEFINED
    /\ sh = NoShell
    /\ cur = NoPop
    /\ idx = 0
    /\ emitted = << >>
    /\ result = NoResult

\* a BufWriter over a file that is not open
NoWriter == [holder |-> 0, buf |-> << >>, pos |-> 0, file |-> << >>]

\* no CostMatrix
NoMatrix == [inner |-> << >>, size |-> 0]

\* the variables of the all-pairs operators, at rest
mat_idle ==
    /\ edges = << >>
    /\ size = 0
    /\ build = "none"
    /\ tasks = << >>
    /\ wtr = NoWriter
    /\ count = 0
    /\ swaps = << >>
    /\ phase = << >>
    /\ cost = NoMatrix

biVars == << back, sh2, cur2, naiv, path_len, bridge >>
matVars == << edges, size, build, tasks, wtr, count, swaps, phase, cost >>
queueVars == << pq, held, last, calls >>

\* ---------------------------------------------------------------- sssp
\* The state after D::from((source, size)), before sssp's first pop_min
InitSssp ==
    /\ graph \in Graphs
    /\ src \in Vertices
    /\ tgt = UNDEFINED
    /\ \E sk \in ShellKinds : sh = Shell_from(sk, src)
    /\ pc = "pop"
    /\ cur = NoPop
    /\ idx = 0
    /\ emitted = << >>
    /\ fault = "ok"
    /\ result = NoResult
    /\ bi_idle
    /\ queue_idle
    /\ mat_idle

\* `while let Some((dist, u)) = source.pop_min()` with r the answer of pop_min;
\* loop, body and end name the driver's positions at the loop head, in the
\* body and after the loop
popped_with(r, loop, body, end) ==
    /\ sh' = r.sh
    /\ fault' = r.fault
    /\ IF r.fault # "ok" \/ ~r.some
       THEN /\ pc' = end
            /\ UNCHANGED << cur, idx, emitted >>
       ELSE /\ cur' = [dist |-> r.key, u |-> r.value]
            /\ idx' = 0
            /\ emitted' = Append(emitted, Item(r.key, r.value))
            /\ pc' = IF get_neighbors(graph, r.value) = << >> THEN loop ELSE body

\* sssp: `while let Some((dist, u)) = source.pop_min()`
sssp_pop ==
    /\ pc = "pop"
    /\ popped_with(pop_min(sh), "pop", "explore", "done")
    /\ UNCHANGED << graph, src, tgt, result >>
    /\ UNCHANGED biVars
    /\ UNCHANGED queueVars
    /\ UNCHANGED matVars

\* `source.explore(u, dist, e)` with r its outcome, n the length of u's list
explored_with(r, n, loop, next) ==
    /\ sh' = r.sh
    /\ fault' = r.fault
    /\ idx' = idx + 1
    /\ pc' = IF r.fault # "ok" THEN "done"
             ELSE IF idx + 1 = n THEN next ELSE loop

\* sssp: `source.explore(u, dist, e)` for the next neighbor e of u
sssp_explore ==
    /\ pc = "explore"
    /\ \E pos \in PushChoices(sh, cur.dist + get_neighbors(graph, cur.u)[idx + 1].weight) :
         explored_with(explore(sh, cur.u, cur.dist,
                               get_neighbors(graph, cur.u)[idx + 1], pos),
                       Len(get_neighbors(graph, cur.u)), "explore", "pop")
    /\ UNCHANGED << graph, src, tgt, cur, emitted, result >>
    /\ UNCHANGED biVars
    /\ UNCHANGED queueVars
    /\ UNCHANGED matVars

NextSssp == sssp_pop \/ sssp_explore

SpecSssp == InitSssp /\ [][NextSssp]_vars


\* ------------------------------------------------- reference: shortest paths
\* Shortest distances by Bellman-Ford rounds over the neighbor lists, as the
\* yardstick the searches are compared with. Inf stands for "no path".
Inf == -1

SetMin(S) == CHOOSE x \in S : \A y \in S : x <= y

MinOrInf(S) == IF S = {} THEN Inf ELSE SetMin(S)

\* one round: the best of the old value and every edge into v
Relax(g, d) ==
    [v \in Vertices |->
       MinOrInf(UNION {{d[u] + g[u][i].weight : i \in {j \in 1..Len(g[u]) : g[u][j].to = v}} :
                          u \in {x \in Vertices : d[x] # Inf}}
                \cup (IF d[v] = Inf THEN {} ELSE {d[v]}))]

RECURSIVE RelaxTimes(_, _, _)
RelaxTimes(g, d, n) == IF n = 0 THEN d ELSE RelaxTimes(g, Relax(g, d), n - 1)

ShortestDist(g, s) ==
    RelaxTimes(g, [v \in Vertices |-> IF v = s THEN 0 ELSE Inf], NumV)

\* the weights of the edges from -> to in g
EdgeWeights(g, from, to) ==
    {g[from][i].weight : i \in {j \in 1..Len(g[from]) : g[from][j].to = to}}

\* The sums of edge weights a vertex sequence can have in g, the sequence
\* given as get_path gives it (target first, source last): one weight per
\* step path[i+1] -> path[i]; empty when a step is no edge of g
RECURSIVE PathSums(_, _)
PathSums(g, path) ==
    IF Len(path) <= 1 THEN {0}
    ELSE {a + w : a \in PathSums(g, Tail(path)), w \in EdgeWeights(g, path[2], path[1])}

\* the values pop_min returned so far
EmittedValues == {emitted[i].value : i \in 1..Len(emitted)}

\* an Option<u32> against a reference distance
SameDist(d, got) == IF d = Inf THEN ~got.some ELSE got.some /\ got.dist = d

\* an Option<Route> (target first) is a path of g of weight key
PathOfKey(g, p, key) == p.some /\ key \in PathSums(g, p.path)

\* --------------------------------------------------------------- C1 .. C4

\* C1: after sssp returns, get_dist(v) is the length of a shortest path from
\* the source for every reachable vertex (0 for the source) and None for
\* every unreachable one, for every shell/queue pairing; the run ends normally.
C1_DistanceCorrect ==
    pc = "done" =>
        /\ fault = "ok"
        /\ \A v \in Vertices : SameDist(ShortestDist(graph, src)[v], get_dist(sh, v))

\* a finished run in which a distance was lowered below its first value and a
\* vertex stayed unreachable
C1_Witness ==
    /\ pc = "done"
    /\ \E v \in Vertices : ShortestDist(graph, src)[v] = Inf
    /\ \E v \in Vertices :
         /\ ShortestDist(graph, src)[v] # Inf
         /\ \E i \in 1..Len(graph[src]) :
              graph[src][i].to = v /\ graph[src][i].weight > ShortestDist(graph, src)[v]

\* C2: after sssp, for every emitted (k, v), get_path(v) steps along edges
\* of G whose weights sum to k = get_dist(v), whatever the shell.
C2_PathSumsToKey ==
    pc = "done" =>
        \A i \in 1..Len(emitted) :
           PathOfKey(graph, get_path(sh, emitted[i].value), emitted[i].key)

\* C3: pop_min returns no vertex twice.
C3_EmittedOnce ==
    \A i, j \in 1..Len(emitted) : i # j => emitted[i].value # emitted[j].value

\* a vertex was relaxed again after pop_min had returned it: the neighbor just
\* explored is an earlier emitted vertex, or the popped vertex itself
C3_Witness ==
    /\ pc \in {"pop", "explore"}
    /\ tgt = UNDEFINED
    /\ idx >= 1
    /\ Len(emitted) >= 2
    /\ get_neighbors(graph, cur.u)[idx].to \in EmittedValues
    /\ \E i \in 1..Len(graph[src]) : graph[src][i].to = src

RECURSIVE Vec_reverse(_)
Vec_reverse(v) == IF v = << >> THEN << >> ELSE Append(Vec_reverse(Tail(v)), Head(v))

Route_reverse(route) ==
    IF route = << >> THEN << >> ELSE Vec_reverse(SubSeq(route, 1, Len(route) - 1))

\* Route::join: Vec::append
Route_join(route, other) == route \o other

\* number of vertices a target query starts from: the edge streams are closed
\* under renaming of vertices and no queue orders vertex ids, so a query from
\* another vertex is a renaming of one from these
NumSources == 1

\* the edge streams the target queries run on
SpGraphs == {DicirectionalList_new(es) : es \in EdgeLists}

InitSp ==
    /\ \E g \in SpGraphs : graph = g.forward /\ back = g.backward
    /\ src \in 1..NumSources
    /\ tgt \in Vertices
    /\ \E sk \in ShellKinds : sh = Shell_from(sk, src)
    /\ sh2 = NoShell
    /\ pc = "naiv_pop"
    /\ cur = NoPop
    /\ cur2 = NoPop
    /\ idx = 0
    /\ emitted = << >>
    /\ fault = "ok"
    /\ result = NoResult
    /\ naiv = NoResult
    /\ path_len = U32Max
    /\ bridge = UNDEFINED
    /\ queue_idle
    /\ mat_idle

\* sp_naiv: `return Some((dist, source.get_path(target).unwrap()))` with p the
\* answer of get_path
naiv_return_with(r, p) ==
    /\ sh' = r.sh
    /\ emitted' = Append(emitted, Item(r.key, r.value))
    /\ cur' = [dist |-> r.key, u |-> r.value]
    /\ idx' = 0
    /\ IF p.some
       THEN /\ naiv' = [some |-> TRUE, dist |-> r.key, path |-> p.path]
            /\ fault' = "ok"
            /\ pc' = "naiv_done"
       ELSE /\ naiv' = NoResult
            /\ fault' = IF p.fault = "ok" THEN "panic" ELSE p.fault
            /\ pc' = "naiv_done"

\* the loop head of sp_naiv without the `if u == target` return
naiv_popped_nostop(r) ==
    /\ popped_with(r, "naiv_pop", "naiv_explore", "naiv_done")
    /\ naiv' = NoResult

\* sp_naiv: the loop head with r the answer of pop_min
naiv_popped_with(r) ==
    IF r.fault = "ok" /\ r.some /\ r.value = tgt
    THEN naiv_return_with(r, get_path(r.sh, tgt))
    ELSE /\ popped_with(r, "naiv_pop", "naiv_explore", "naiv_done")
         /\ naiv' = NoResult

\* sp_naiv: `while let Some((dist, u)) = source.pop_min()`, the target test
\* included; an empty queue ends the loop and sp_naiv returns None
sp_naiv_pop ==
    /\ pc = "naiv_pop"
    /\ naiv_popped_with(pop_min(sh))
    /\ UNCHANGED << graph, back, src, tgt, sh2, cur2, result, path_len, bridge >>
    /\ UNCHANGED queueVars
    /\ UNCHANGED matVars

\* sp_naiv: `source.explore(u, dist, e)` for the next neighbor e of u
sp_naiv_explore ==
    /\ pc = "naiv_explore"
    /\ \E pos \in PushChoices(sh, cur.dist + get_neighbors(graph, cur.u)[idx + 1].weight) :
         explored_with(explore(sh, cur.u, cur.dist,
                               get_neighbors(graph, cur.u)[idx + 1], pos),
                       Len(get_neighbors(graph, cur.u)), "naiv_explore", "naiv_pop")
    /\ UNCHANGED << graph, src, tgt, cur, emitted, result >>
    /\ UNCHANGED biVars
    /\ UNCHANGED queueVars
    /\ UNCHANGED matVars

\* sp_naiv has returned; the query is put to sp_bi: two fresh shells,
\* `let mut path_len = u32::MAX; let mut bridge = Vertex(0)`
sp_bi_start ==
    /\ pc = "naiv_done"
    /\ fault = "ok"
    /\ sh' = Shell_from([kind |-> sh.kind, k |-> sh.k], src)
    /\ sh2' = Shell_from([kind |-> sh.kind, k |-> sh.k], tgt)
    /\ path_len' = U32Max
    /\ bridge' = UNDEFINED
    /\ cur' = NoPop
    /\ cur2' = NoPop
    /\ idx' = 0
    /\ emitted' = << >>
    /\ pc' = "bi_pop"
    /\ UNCHANGED << graph, back, src, tgt, fault, result, naiv >>
    /\ UNCHANGED queueVars
    /\ UNCHANGED matVars

\* where the body of sp_bi's loop goes after the forward neighbors
after_fwd(v) == IF get_neighbors(back, v) = << >> THEN "bi_stop" ELSE "bi_bwd"

\* sp_bi: the loop head with r1, r2 the answers of the two pop_min calls
bi_popped_with(r1, r2) ==
    /\ sh' = r1.sh
    /\ sh2' = IF r1.fault = "ok" THEN r2.sh ELSE sh2
    /\ fault' = IF r1.fault # "ok" THEN r1.fault ELSE r2.fault
    /\ emitted' = IF r1.fault = "ok" /\ r1.some
                  THEN Append(emitted, Item(r1.key, r1.value)) ELSE emitted
    /\ idx' = 0
    /\ IF r1.fault = "ok" /\ r2.fault = "ok" /\ r1.some /\ r2.some
       THEN /\ cur' = [dist |-> r1.key, u |-> r1.value]
            /\ cur2' = [dist |-> r2.key, u |-> r2.value]
            /\ pc' = IF get_neighbors(graph, r1.value) = << >>
                     THEN after_fwd(r2.value) ELSE "bi_fwd"
       ELSE /\ pc' = "done"
            /\ UNCHANGED << cur, cur2 >>

\* sp_bi: `while let (Some((dist_u, u)), Some((dist_v, v))) =
\* (source.pop_min(), target.pop_min())`; both calls are made, then the
\* pattern is matched; a None on either side ends the loop: sp_bi returns None
sp_bi_pop ==
    /\ pc = "bi_pop"
    /\ bi_popped_with(pop_min(sh), pop_min(sh2))
    /\ UNCHANGED << graph, back, src, tgt, result, naiv, path_len, bridge >>
    /\ UNCHANGED queueVars
    /\ UNCHANGED matVars

\* sp_bi: `if let Some(x) = other.get_dist(e.to) { let con = ...; if path_len
\* > con { path_len = con; bridge = e.to } }` with x the answer of get_dist
\* and base = dist + e.weight
candidate_with(x, base, to) ==
    IF x.some /\ path_len > base + x.dist
    THEN path_len' = base + x.dist /\ bridge' = to
    ELSE UNCHANGED << path_len, bridge >>

\* sp_bi: one turn of `for e in edges.forward.get_neighbors(u)` with r the
\* outcome of source.explore(u, dist_u, e)
bi_fwd_with(r, e) ==
    /\ sh' = r.sh
    /\ fault' = r.fault
    /\ IF r.fault # "ok"
       THEN /\ pc' = "done"
            /\ UNCHANGED << idx, path_len, bridge >>
       ELSE /\ candidate_with(get_dist(sh2, e.to), cur.dist + e.weight, e.to)
            /\ IF idx + 1 = Len(get_neighbors(graph, cur.u))
               THEN idx' = 0 /\ pc' = after_fwd(cur2.u)
               ELSE idx' = idx + 1 /\ pc' = "bi_fwd"

bi_fwd_edge(e) ==
    \E pos \in PushChoices(sh, cur.dist + e.weight) :
        bi_fwd_with(explore(sh, cur.u, cur.dist, e, pos), e)

sp_bi_fwd ==
    /\ pc = "bi_fwd"
    /\ bi_fwd_edge(get_neighbors(graph, cur.u)[idx + 1])
    /\ UNCHANGED << graph, back, src, tgt, sh2, cur, cur2, emitted, result, naiv >>
    /\ UNCHANGED queueVars
    /\ UNCHANGED matVars

\* sp_bi: one turn of `for e in edges.backward.get_neighbors(v)` with r the
\* outcome of target.explore(v, dist_v, e)
bi_bwd_with(r, e) ==
    /\ sh2' = r.sh
    /\ fault' = r.fault
    /\ IF r.fault # "ok"
       THEN /\ pc' = "done"
            /\ UNCHANGED << idx, path_len, bridge >>
       ELSE /\ candidate_with(get_dist(sh, e.to), cur2.dist + e.weight, e.to)
            /\ IF idx + 1 = Len(get_neighbors(back, cur2.u))
               THEN idx' = 0 /\ pc' = "bi_stop"
               ELSE idx' = idx + 1 /\ pc' = "bi_bwd"

bi_bwd_edge(e) ==
    \E pos \in PushChoices(sh2, cur2.dist + e.weight) :
        bi_bwd_with(explore(sh2, cur2.u, cur2.dist, e, pos), e)

sp_bi_bwd ==
    /\ pc = "bi_bwd"
    /\ bi_bwd_edge(get_neighbors(back, cur2.u)[idx + 1])
    /\ UNCHANGED << graph, back, src, tgt, sh, cur, cur2, emitted, result, naiv >>
    /\ UNCHANGED queueVars
    /\ UNCHANGED matVars

\* sp_bi: the return, with the answers of the two get_path(bridge) calls;
\* unwrap of a None panics
bi_return_with(forward, backward) ==
    IF forward.some /\ backward.some
    THEN /\ result' = [some |-> TRUE, dist |-> path_len,
                       path |-> Route_join(forward.path, Route_reverse(backward.path))]
         /\ fault' = "ok"
    ELSE /\ result' = NoResult
         /\ fault' = IF ~forward.some
                     THEN (IF forward.fault = "ok" THEN "panic" ELSE forward.fault)
                     ELSE (IF backward.fault = "ok" THEN "panic" ELSE backward.fault)

\* sp_bi: `if dist_u + dist_v >= path_len { ...; return Some((path_len, forward)) }`
sp_bi_stop ==
    /\ pc = "bi_stop"
    /\ IF cur.dist + cur2.dist >= path_len
       THEN /\ bi_return_with(get_path(sh, bridge), get_path(sh2, bridge))
            /\ pc' = "done"
       ELSE /\ pc' = "bi_pop"
            /\ UNCHANGED << result, fault >>
    /\ UNCHANGED << graph, back, src, tgt, sh, sh2, cur, cur2, idx, emitted, naiv,
                    path_len, bridge >>
    /\ UNCHANGED queueVars
    /\ UNCHANGED matVars

NextSp ==
    \/ sp_naiv_pop
    \/ sp_naiv_explore
    \/ sp_bi_start
    \/ sp_bi_pop
    \/ sp_bi_fwd
    \/ sp_bi_bwd
    \/ sp_bi_stop

SpecSp == InitSp /\ [][NextSp]_vars


\* ------------------------------------------------------- a queue used alone
\* largest key pushed to a queue used alone
MaxKey == 2
\* number of distinct values pushed to a queue used alone
NumValues == 2
\* largest number of calls made on a queue used alone
MaxCalls == 6

Keys == 0..MaxKey
Values == 1..NumValues

\* The queue of each pairing, named by the pairing's kind:
\* "Search" PairingHeap, "OwnedLookup" the addressable heap of arity k,
\* "NoLookupList" SortetList, "NoLookupHeap" the simple heap of arity k
Queue_from(sk, source) ==
    CASE sk.kind = "Search" -> PairingHeap_from(source)
      [] sk.kind = "OwnedLookup" -> Heap_from(TRUE, source)
      [] sk.kind = "NoLookupList" -> SortetList_from(source)
      [] OTHER -> Heap_from(FALSE, source)

\* PriorityQueue::push of the queue of a pairing: the queue afterwards
Queue_push(kind, k, q, key, value, pos) ==
    CASE kind = "Search" -> PairingHeap_push(q, key, value).q
      [] kind = "OwnedLookup" -> Heap_push(k, TRUE, q, key, value).q
      [] kind = "NoLookupList" -> SortetList_push(q, key, value, pos).q
      [] OTHER -> Heap_push(k, FALSE, q, key, value).q

\* the nodes of a pairing heap that can be reached from main and aux
RECURSIVE Reach(_, _, _)
Reach(ns, seen, fuel) ==
    IF fuel = 0 THEN seen
    ELSE Reach(ns,
               seen \cup (({ns[n].child : n \in seen} \cup {ns[n].next : n \in seen}) \ {0}),
               fuel - 1)

PairingHeap_nodes(h) == Reach(h.nodes, {h.main, h.aux} \ {0}, Len(h.nodes))

\* a bag is a function from its members to their counts
BagOfSeq(s) ==
    [x \in {s[i] : i \in 1..Len(s)} |-> Cardinality({i \in 1..Len(s) : s[i] = x})]

BagCount(b, x) == IF x \in DOMAIN b THEN b[x] ELSE 0

BagAdd(b, x) == [y \in DOMAIN b \cup {x} |-> BagCount(b, y) + (IF y = x THEN 1 ELSE 0)]

BagRemove(b, x) ==
    [y \in {z \in DOMAIN b : z # x \/ b[z] > 1} |-> IF y = x THEN b[y] - 1 ELSE b[y]]

BagMinKey(b) == SetMin({x.key : x \in DOMAIN b})

\* the (key, value) items a queue holds
Contents(kind, q) ==
    IF kind = "Search"
    THEN [x \in {Item(q.nodes[n].key, q.nodes[n].id) : n \in PairingHeap_nodes(q)} |->
            Cardinality({n \in PairingHeap_nodes(q) : Item(q.nodes[n].key, q.nodes[n].id) = x})]
    ELSE BagOfSeq(q.inner)

\* the kinds with one arity each for the queues that have none
QueueKinds == ShellKinds

InitQueue ==
    /\ \E sk \in QueueKinds, source \in Values :
          pq = [kind |-> sk.kind, k |-> sk.k, queue |-> Queue_from(sk, source)]
    /\ held = << >>
    /\ last = NoCall
    /\ calls = 0
    /\ pc = "queue"
    /\ fault = "ok"
    /\ search_idle
    /\ bi_idle
    /\ mat_idle

\* what a call leaves for the next state to be judged by: the call, its
\* answer, and the items held before it
Called(op, r, before) ==
    [op |-> op, some |-> r.some, key |-> r.key, value |-> r.value, node |-> r.node,
     before |-> before]

\* queue.push(key, value)
q_push ==
    /\ pc = "queue"
    /\ calls < MaxCalls
    /\ \E key \in Keys, value \in Values :
         \E pos \in PushChoices(pq, key) :
            /\ pq' = [pq EXCEPT !.queue = Queue_push(pq.kind, pq.k, pq.queue, key, value, pos)]
            /\ last' = Called("push", SomePopped(0, key, value, 0), Contents(pq.kind, pq.queue))
    /\ calls' = calls + 1
    /\ UNCHANGED << graph, src, tgt, sh, pc, cur, idx, emitted, fault, result, held >>
    /\ UNCHANGED biVars
    /\ UNCHANGED matVars

\* queue.pop() with r its answer
q_popped_with(r) ==
    /\ pq' = [pq EXCEPT !.queue = r.q]
    /\ last' = Called("pop", r, Contents(pq.kind, pq.queue))

\* queue.pop()
q_pop ==
    /\ pc = "queue"
    /\ calls < MaxCalls
    /\ q_popped_with(Queue_pop(pq.kind, pq.k, pq.queue))
    /\ calls' = calls + 1
    /\ UNCHANGED << graph, src, tgt, sh, pc, cur, idx, emitted, fault, result, held >>
    /\ UNCHANGED biVars
    /\ UNCHANGED matVars

NextQueue == q_push \/ q_pop

SpecQueue == InitQueue /\ [][NextQueue]_vars


\* ------------------------------------------- the pairing heap with handles
\* The caller keeps the handle push returned (the index of the node) and what
\* it knows of the item: held[n] = [key, value, live, dec, deep] with key the
\* key pushed or last passed to decrease_key, live until pop returns the
\* node, dec set by decrease_key, deep set when decrease_key found the node
\* below another one.
\* largest number of nodes of a pairing heap with handles
MaxNodes == 4
\* largest number of calls made on a pairing heap with handles
MaxHeapCalls == 8

Held(key, value) ==
    [key |-> key, value |-> value, live |-> TRUE, dec |-> FALSE, deep |-> FALSE]

\* the keys of the items the caller has not got back yet
LiveKeys(h) == {h[n].key : n \in {m \in 1..Len(h) : h[m].live}}

InitPh ==
    /\ \E source \in Values :
          /\ pq = [kind |-> "Search", k |-> 0, queue |-> PairingHeap_from(source)]
          /\ held = << Held(0, source) >>
    /\ last = NoCall
    /\ calls = 0
    /\ pc = "heap"
    /\ fault = "ok"
    /\ search_idle
    /\ bi_idle
    /\ mat_idle

\* heap.push(key, value) with p = (heap, handle) its outcome
ph_pushed_with(p, key, value) ==
    /\ pq' = [pq EXCEPT !.queue = p.q]
    /\ held' = Append(held, Held(key, value))
    /\ last' = Called("push", SomePopped(0, key, value, p.ref), LiveKeys(held))

ph_push ==
    /\ pc = "heap"
    /\ calls < MaxHeapCalls
    /\ Len(held) < MaxNodes
    /\ \E key \in Keys, value \in Values :
          ph_pushed_with(PairingHeap_push(pq.queue, key, value), key, value)
    /\ calls' = calls + 1
    /\ UNCHANGED << graph, src, tgt, sh, pc, cur, idx, emitted, fault, result >>
    /\ UNCHANGED biVars
    /\ UNCHANGED matVars

\* heap.pop() with r its answer
ph_popped_with(r) ==
    /\ pq' = [pq EXCEPT !.queue = r.q]
    /\ held' = IF r.some THEN [held EXCEPT ![r.node].live = FALSE] ELSE held
    /\ last' = Called("pop", r, LiveKeys(held))

ph_pop ==
    /\ pc = "heap"
    /\ calls < MaxHeapCalls
    /\ ph_popped_with(PairingHeap_pop(pq.queue))
    /\ calls' = calls + 1
    /\ UNCHANGED << graph, src, tgt, sh, pc, cur, idx, emitted, fault, result >>
    /\ UNCHANGED biVars
    /\ UNCHANGED matVars

\* heap.decrease_key(h, key) with d its outcome
ph_decreased_with(d, n, key) ==
    /\ pq' = [pq EXCEPT !.queue = d.q]
    /\ fault' = d.fault
    /\ pc' = IF d.fault = "ok" THEN "heap" ELSE "done"
    /\ held' = [held EXCEPT ![n].key = key, ![n].dec = TRUE,
                            ![n].deep = pq.queue.nodes[n].parent # 0]
    /\ last' = Called("decrease_key", SomePopped(0, key, held[n].value, n), LiveKeys(held))

\* heap.decrease_key(h, key) for a handle h that push returned, whose item is
\* still in the heap, and a key below the item's
ph_decrease_key ==
    /\ pc = "heap"
    /\ calls < MaxHeapCalls
    /\ \E n \in 2..Len(held) :
          /\ held[n].live
          /\ n \in PairingHeap_nodes(pq.queue)
          /\ \E key \in Keys :
                /\ key < held[n].key
                /\ ph_decreased_with(PairingHeap_decrease_key(pq.queue, n, key), n, key)
    /\ calls' = calls + 1
    /\ UNCHANGED << graph, src, tgt, sh, cur, idx, emitted, result >>
    /\ UNCHANGED biVars
    /\ UNCHANGED matVars

NextPh == ph_push \/ ph_pop \/ ph_decrease_key

SpecPh == InitPh /\ [][NextPh]_vars


\* heap.decrease_key(h, key) with d its outcome, for a handle whose item is
\* not in the heap; the call leaves the heap as it was before in `last`
ph_stale_with(d, n, key) ==
    /\ pq' = [pq EXCEPT !.queue = d.q]
    /\ fault' = d.fault
    /\ pc' = IF d.fault = "ok" THEN "heap" ELSE "done"
    /\ last' = [op |-> "decrease_stale", some |-> FALSE, key |-> key, value |-> 0,
                node |-> n, before |-> pq.queue]

\* heap.decrease_key(h, key) for the null handle (Link::from(Vertex(0)) = None)
\* or the handle of an item that pop has returned
ph_decrease_stale ==
    /\ pc = "heap"
    /\ calls < MaxHeapCalls
    /\ \E n \in {0} \cup {m \in 1..Len(held) : ~held[m].live} :
          \E key \in Keys :
             ph_stale_with(PairingHeap_decrease_key(pq.queue, n, key), n, key)
    /\ calls' = calls + 1
    /\ UNCHANGED << graph, src, tgt, sh, cur, idx, emitted, result, held >>
    /\ UNCHANGED biVars
    /\ UNCHANGED matVars

NextStale == ph_push \/ ph_pop \/ ph_decrease_key \/ ph_decrease_stale

SpecStale == InitPh /\ [][NextStale]_vars

\* ------------------------------ the pairing heap under distinct vertex ids
\* The caller pushes a vertex only while no item of that vertex is in the
\* heap, as Search::explore does (it pushes for a vertex without meta entry).
VertexIds == 1..MaxNodes

\* the vertices of the items the caller has not got back yet
LiveValues(h) == {h[n].value : n \in {m \in 1..Len(h) : h[m].live}}

\* heap.push(key, value) for a vertex that has no item in the heap
ph_push_distinct ==
    /\ pc = "heap"
    /\ calls < MaxHeapCalls
    /\ Len(held) < MaxNodes
    /\ \E key \in Keys, value \in VertexIds \ LiveValues(held) :
          ph_pushed_with(PairingHeap_push(pq.queue, key, value), key, value)
    /\ calls' = calls + 1
    /\ UNCHANGED << graph, src, tgt, sh, pc, cur, idx, emitted, fault, result >>
    /\ UNCHANGED biVars
    /\ UNCHANGED matVars

\* heap.decrease_key(h, key) with d its outcome; the call leaves the heap as
\* it was before in `last`
ph_decreased_from(d, n, key) ==
    /\ pq' = [pq EXCEPT !.queue = d.q]
    /\ fault' = d.fault
    /\ pc' = IF d.fault = "ok" THEN "heap" ELSE "done"
    /\ held' = [held EXCEPT ![n].key = key, ![n].dec = TRUE,
                            ![n].deep = pq.queue.nodes[n].parent # 0]
    /\ last' = [op |-> "decrease_key", some |-> TRUE, key |-> key,
                value |-> held[n].value, node |-> n, before |-> pq.queue]

\* heap.decrease_key(h, key) for the handle of an item in the heap and a key
\* below the item's
ph_decrease_distinct ==
    /\ pc = "heap"
    /\ calls < MaxHeapCalls
    /\ \E n \in 1..Len(held) :
          /\ held[n].live
          /\ \E key \in Keys :
                /\ key < held[n].key
                /\ ph_decreased_from(PairingHeap_decrease_key(pq.queue, n, key), n, key)
    /\ calls' = calls + 1
    /\ UNCHANGED << graph, src, tgt, sh, cur, idx, emitted, result >>
    /\ UNCHANGED biVars
    /\ UNCHANGED matVars

NextDistinct == ph_push_distinct \/ ph_pop \/ ph_decrease_distinct

SpecDistinct == InitPh /\ [][NextDistinct]_vars

\* ------------------------------------------- implicit_heaps.rs: the heaps
\* of implicit_heap! and implicit_heap_simple!, which carry dist and prev
\* themselves and answer pop_min with a vertex (an Item), not an Option.
\* A heap is [inner, hlookup, dist, prev, seen]; the simple flavour keeps
\* Items [key, value] for Item { dist, v } in inner and has no hlookup and
\* no seen (left as at construction).

\* implicit_heap!::new
ImplicitHeap_new(source) ==
    [inner |-> << source >>,
     hlookup |-> [v \in Vertices |-> 0],
     dist |-> [v \in Vertices |-> IF v = source THEN 0 ELSE U32Max],
     prev |-> [v \in Vertices |-> UNDEFINED],
     seen |-> [v \in Vertices |-> FALSE]]

\* implicit_heap_simple!::new
ImplicitHeapSimple_new(source) ==
    [inner |-> << Item(0, source) >>,
     hlookup |-> [v \in Vertices |-> 0],
     dist |-> [v \in Vertices |-> 0],
     prev |-> [v \in Vertices |-> UNDEFINED],
     seen |-> [v \in Vertices |-> FALSE]]

\* the array of implicit_heap! as bubble_up and bubble_down see it: each
\* vertex with get_dist of it
keyed(oh) ==
    [inner |-> [i \in 1..Len(oh.inner) |-> Item(oh.dist[oh.inner[i]], oh.inner[i])],
     lookup |-> oh.hlookup]

\* the heap after bubble_up / bubble_down left hp
unkeyed(oh, hp) ==
    [oh EXCEPT !.inner = [i \in 1..Len(hp.inner) |-> hp.inner[i].value],
               !.hlookup = hp.lookup]

\* the outcome of an explore: [q, fault]
Explored_q(q, how) == [q |-> q, fault |-> how]

\* implicit_heap!::explore, the branch taken when e.to is not expanded and
\* alt < dist(e.to); oh has dist(e.to) set already
ImplicitHeap_relax(k, oh, from, to) ==
    IF oh.prev[to] = UNDEFINED
    THEN [unkeyed(oh, bubble_up(k, TRUE,
                        [inner |-> Append(keyed(oh).inner, Item(oh.dist[to], to)),
                         lookup |-> [oh.hlookup EXCEPT ![to] = Len(oh.inner)]],
                        Len(oh.inner)))
            EXCEPT !.prev[to] = from]
    ELSE [unkeyed(oh, bubble_up(k, TRUE, keyed(oh), oh.hlookup[to]))
            EXCEPT !.prev[to] = from]

\* implicit_heap!::explore: `self.set_dist(e.to, e.weight)`
ImplicitHeap_explore(k, oh, from, e) ==
    IF ~oh.seen[e.to] /\ oh.dist[from] + e.weight < oh.dist[e.to]
    THEN IF oh.prev[e.to] # UNDEFINED /\ oh.hlookup[e.to] > 0
                                      /\ oh.hlookup[e.to] >= Len(oh.inner)
         THEN Explored_q([oh EXCEPT !.dist[e.to] = e.weight], "panic")
         ELSE Explored_q(ImplicitHeap_relax(k, [oh EXCEPT !.dist[e.to] = e.weight],
                                            from, e.to), "ok")
    ELSE Explored_q(oh, "ok")

\* the answer of the pop_min of implicit_heaps.rs: [q, some, key, value,
\* node, fault]; the source answers with the vertex itself (the Item) and
\* has no None: some is FALSE only when the call did not return
MinOf(q, key, value) ==
    [q |-> q, some |-> TRUE, key |-> key, value |-> value, node |-> 0, fault |-> "ok"]

NoMin(q, how) ==
    [q |-> q, some |-> FALSE, key |-> 0, value |-> 0, node |-> 0, fault |-> how]

\* implicit_heap!::pop_min: heap.last().expect(..) panics on an empty heap
ImplicitHeap_pop_min(k, oh) ==
    IF oh.inner = << >> THEN NoMin(oh, "panic")
    ELSE MinOf([unkeyed(oh, bubble_down(k, TRUE,
                      [inner |-> Vec_swap_remove0(keyed(oh).inner),
                       lookup |-> [oh.hlookup EXCEPT ![oh.inner[Len(oh.inner)]] = 0]]))
                  EXCEPT !.seen[oh.inner[1]] = TRUE],
               oh.dist[oh.inner[1]], oh.inner[1])

\* implicit_heap_simple!::expanded
Simple_expanded(oh, v) == oh.dist[v] # 0

\* implicit_heap_simple!::explore, from = Item { v, dist }
ImplicitHeapSimple_explore(k, oh, from, e) ==
    IF ~Simple_expanded(oh, e.to)
    THEN Explored_q([oh EXCEPT !.inner = bubble_up(k, FALSE,
                                   [inner |-> Append(oh.inner, Item(from.key + e.weight, e.to)),
                                    lookup |-> oh.hlookup],
                                   Len(oh.inner)).inner,
                               !.prev[e.to] = from.value], "ok")
    ELSE Explored_q(oh, "ok")

\* implicit_heap_simple!::pop_min, the loop that drops expanded items from the root
RECURSIVE Simple_drop_expanded(_, _)
Simple_drop_expanded(k, oh) ==
    IF oh.inner # << >> /\ Simple_expanded(oh, oh.inner[1].value)
    THEN Simple_drop_expanded(k,
            [oh EXCEPT !.inner = bubble_down(k, FALSE,
                                   [inner |-> Vec_swap_remove0(oh.inner),
                                    lookup |-> oh.hlookup]).inner])
    ELSE oh

\* implicit_heap_simple!::pop_min: swap_remove(0) panics on an empty heap
ImplicitHeapSimple_pop_min(k, oh) ==
    IF oh.inner = << >> THEN NoMin(oh, "panic")
    ELSE MinOf(Simple_drop_expanded(k,
                  [oh EXCEPT !.inner = bubble_down(k, FALSE,
                                         [inner |-> Vec_swap_remove0(oh.inner),
                                          lookup |-> oh.hlookup]).inner,
                             !.dist[oh.inner[1].value] = oh.inner[1].key]),
               oh.inner[1].key, oh.inner[1].value)

\* the heaps of implicit_heaps.rs: BinaryHeap .. HexadecimaryHeap and
\* BinaryHeapSimple .. HexadecimaryHeapSimple
ImplicitKinds ==
    {[kind |-> "ImplicitHeap", k |-> k] : k \in Arities}
    \cup {[kind |-> "ImplicitHeapSimple", k |-> k] : k \in Arities}

\* largest number of calls made on a heap of implicit_heaps.rs
MaxOldCalls == 5

\* the items a heap of implicit_heaps.rs holds
OldContents(kind, oh) ==
    IF kind = "ImplicitHeap" THEN BagOfSeq(keyed(oh).inner) ELSE BagOfSeq(oh.inner)

InitImplicit ==
    /\ \E ik \in ImplicitKinds, source \in Vertices :
          /\ pq = [kind |-> ik.kind, k |-> ik.k,
                   queue |-> IF ik.kind = "ImplicitHeap" THEN ImplicitHeap_new(source)
                             ELSE ImplicitHeapSimple_new(source)]
          /\ cur = [dist |-> 0, u |-> source]
    /\ held = << >>
    /\ last = NoCall
    /\ calls = 0
    /\ pc = "implicit"
    /\ fault = "ok"
    /\ graph = << >>
    /\ src = UNDEFINED
    /\ tgt = UNDEFINED
    /\ sh = NoShell
    /\ idx = 0
    /\ emitted = << >>
    /\ result = NoResult
    /\ bi_idle
    /\ mat_idle

\* heap.explore(from, e) with r its outcome
implicit_explored_with(r, e) ==
    /\ pq' = [pq EXCEPT !.queue = r.q]
    /\ fault' = r.fault
    /\ pc' = IF r.fault = "ok" THEN "implicit" ELSE "done"
    /\ last' = Called("explore", SomePopped(0, e.weight, e.to, 0),
                      OldContents(pq.kind, pq.queue))

\* heap.explore(from, e) for an edge e out of `from`, the vertex (the Item)
\* pop_min returned last, or the source before the first pop_min
implicit_explore_edge(e) ==
    implicit_explored_with(
        IF pq.kind = "ImplicitHeap"
        THEN ImplicitHeap_explore(pq.k, pq.queue, cur.u, e)
        ELSE ImplicitHeapSimple_explore(pq.k, pq.queue, Item(cur.dist, cur.u), e),
        e)

implicit_explore ==
    /\ pc = "implicit"
    /\ calls < MaxOldCalls
    /\ \E to \in Vertices, weight \in Weights : implicit_explore_edge(Neighbor(to, weight))
    /\ calls' = calls + 1
    /\ UNCHANGED << graph, src, tgt, sh, cur, idx, emitted, result, held >>
    /\ UNCHANGED biVars
    /\ UNCHANGED matVars

\* heap.pop_min() with r its answer
implicit_popped_with(r) ==
    /\ pq' = [pq EXCEPT !.queue = r.q]
    /\ fault' = r.fault
    /\ pc' = IF r.fault = "ok" THEN "implicit" ELSE "done"
    /\ cur' = IF r.some THEN [dist |-> r.key, u |-> r.value] ELSE cur
    /\ last' = Called("pop_min", r, OldContents(pq.kind, pq.queue))

\* heap.pop_min(), whatever the heap holds
implicit_pop_min ==
    /\ pc = "implicit"
    /\ calls < MaxOldCalls
    /\ implicit_popped_with(IF pq.kind = "ImplicitHeap"
                            THEN ImplicitHeap_pop_min(pq.k, pq.queue)
                            ELSE ImplicitHeapSimple_pop_min(pq.k, pq.queue))
    /\ calls' = calls + 1
    /\ UNCHANGED << graph, src, tgt, sh, idx, emitted, result, held >>
    /\ UNCHANGED biVars
    /\ UNCHANGED matVars

NextImplicit == implicit_explore \/ implicit_pop_min

SpecImplicit == InitImplicit /\ [][NextImplicit]_vars


\* ------------------------------------ the d-ary heaps of both source files
\* The derived heaps under the shells of sssp and the heaps of
\* implicit_heaps.rs under explore and pop_min: the runs of either kind
InitHeaps == InitSssp \/ InitImplicit

NextHeaps == sssp_pop \/ sssp_explore \/ implicit_explore \/ implicit_pop_min

SpecHeaps == InitHeaps /\ [][NextHeaps]_vars

\* ------------------------------- implicit_heap_simple! with what it returned
\* The simple heaps of implicit_heaps.rs with the Items pop_min has returned
\* kept in `emitted`.
InitSimple ==
    /\ \E k \in Arities, source \in Vertices :
          /\ pq = [kind |-> "ImplicitHeapSimple", k |-> k,
                   queue |-> ImplicitHeapSimple_new(source)]
          /\ cur = [dist |-> 0, u |-> source]
    /\ held = << >>
    /\ last = NoCall
    /\ calls = 0
    /\ pc = "simple"
    /\ fault = "ok"
    /\ graph = << >>
    /\ src = UNDEFINED
    /\ tgt = UNDEFINED
    /\ sh = NoShell
    /\ idx = 0
    /\ emitted = << >>
    /\ result = NoResult
    /\ bi_idle
    /\ mat_idle

\* heap.explore(from, e) with r its outcome
simple_explored_with(r, e) ==
    /\ pq' = [pq EXCEPT !.queue = r.q]
    /\ fault' = r.fault
    /\ last' = Called("explore", SomePopped(0, e.weight, e.to, 0),
                      OldContents(pq.kind, pq.queue))

\* heap.explore(from, e) for an edge e out of `from`, the Item pop_min
\* returned last, or Item { v: source, dist: 0 } before the first pop_min
simple_explore ==
    /\ pc = "simple"
    /\ calls < MaxOldCalls
    /\ \E to \in Vertices, weight \in Weights :
          simple_explored_with(
              ImplicitHeapSimple_explore(pq.k, pq.queue, Item(cur.dist, cur.u),
                                         Neighbor(to, weight)),
              Neighbor(to, weight))
    /\ calls' = calls + 1
    /\ UNCHANGED << graph, src, tgt, sh, pc, cur, idx, emitted, result, held >>
    /\ UNCHANGED biVars
    /\ UNCHANGED matVars

\* heap.pop_min() with r its answer
simple_popped_with(r) ==
    /\ pq' = [pq EXCEPT !.queue = r.q]
    /\ fault' = r.fault
    /\ pc' = IF r.fault = "ok" THEN "simple" ELSE "done"
    /\ cur' = IF r.some THEN [dist |-> r.key, u |-> r.value] ELSE cur
    /\ emitted' = IF r.some THEN Append(emitted, Item(r.key, r.value)) ELSE emitted
    /\ last' = Called("pop_min", r, OldContents(pq.kind, pq.queue))

\* heap.pop_min(), whatever the heap holds
simple_pop_min ==
    /\ pc = "simple"
    /\ calls < MaxOldCalls
    /\ simple_popped_with(ImplicitHeapSimple_pop_min(pq.k, pq.queue))
    /\ calls' = calls + 1
    /\ UNCHANGED << graph, src, tgt, sh, idx, result, held >>
    /\ UNCHANGED biVars
    /\ UNCHANGED matVars

NextSimple == simple_explore \/ simple_pop_min

SpecSimple == InitSimple /\ [][NextSimple]_vars

\* --------------------------------------------------------------- C5 .. C10

\* C5: sp_naiv and sp_bi answer every query (s, t), s = t and t unreachable
\* included, alike: both None, or both Some with equal distances.
C5_SameDistance ==
    pc = "done" =>
        /\ fault = "ok"
        /\ naiv.some = result.some
        /\ naiv.some => naiv.dist = result.dist

\* a vertex sequence from src to tgt along edges of G of total weight d, read
\* in either direction
ValidRoute(path, d) ==
    /\ path # << >>
    /\ \/ path[1] = tgt /\ path[Len(path)] = src /\ d \in PathSums(graph, path)
       \/ path[1] = src /\ path[Len(path)] = tgt /\ d \in PathSums(graph, Vec_reverse(path))

\* C6: when sp_bi returns Some((d, route)), the route runs from s to t along
\* edges of G whose weights sum to d (the bridge vertex once).
C6_RouteValid ==
    (pc = "done" /\ result.some) => ValidRoute(result.path, result.dist)

\* sp_naiv has returned Some for a target with r the last pop
naiv_some_ok ==
    /\ emitted # << >>
    /\ emitted[Len(emitted)] = Item(naiv.dist, tgt)
    /\ \A i \in 1..(Len(emitted) - 1) : emitted[i].value # tgt
    /\ naiv.path = get_path(sh, tgt).path

\* C7: sp_naiv returns at the first pop_min that yields t, with the shortest
\* distance and get_path(t); it explores no neighbor of t; it returns None
\* exactly when t is unreachable, the queue then being empty and t never popped.
C7_NaivCorrect ==
    /\ pc \in {"naiv_pop", "naiv_explore", "naiv_done"} => fault = "ok"
    /\ pc = "naiv_explore" => cur.u # tgt
    /\ pc = "naiv_done" =>
          /\ SameDist(ShortestDist(graph, src)[tgt], naiv)
          /\ IF naiv.some THEN naiv_some_ok
             ELSE tgt \notin EmittedValues /\ ~pop_min(sh).some

\* sp_naiv returned the target as the third vertex popped, at a distance
\* below the weight of a direct edge
C7_Witness ==
    /\ pc = "naiv_done"
    /\ naiv.some
    /\ Len(emitted) = 3
    /\ \E i \in 1..Len(graph[src]) :
         graph[src][i].to = tgt /\ graph[src][i].weight > naiv.dist


\* C8: on every queue flavor used alone, push adds exactly the pushed item,
\* and pop on a non-empty queue returns an item of minimal key among those
\* held and removes exactly that item.
C8_PopMinRemovesOne ==
    /\ last.op = "push" =>
          Contents(pq.kind, pq.queue) = BagAdd(last.before, Item(last.key, last.value))
    /\ (last.op = "pop" /\ DOMAIN last.before # {}) =>
          /\ last.some
          /\ Item(last.key, last.value) \in DOMAIN last.before
          /\ last.key = BagMinKey(last.before)
          /\ Contents(pq.kind, pq.queue) = BagRemove(last.before, Item(last.key, last.value))

\* a pop from a queue that held an item twice and three different keys
C8_Witness ==
    /\ last.op = "pop"
    /\ last.some
    /\ \E x \in DOMAIN last.before : last.before[x] >= 2
    /\ Cardinality({x.key : x \in DOMAIN last.before}) = 3

\* the handles whose key was decreased and whose item pop has not returned
Decreased == {n \in 1..Len(held) : held[n].live /\ held[n].dec}

\* C9: on the pairing heap, decrease_key(h, k') on a handle whose item is in
\* the heap ends normally; the pop that returns the item returns key k'; and
\* no pop returns a greater key while the item has not been returned.
C9_DecreasedKeyPopped ==
    /\ pc \in {"heap", "done"} => fault = "ok"
    /\ (pc = "heap" /\ last.op = "pop" /\ last.some) =>
          /\ held[last.node].dec => last.key = held[last.node].key
          /\ \A n \in Decreased : last.key <= held[n].key

\* a queue without items
Queue_is_empty(kind, q) ==
    IF kind = "Search" THEN q.main = 0 /\ q.aux = 0 ELSE q.inner = << >>

\* C10: pop / pop_min on a queue that holds no items returns None, leaves
\* the queue empty and does not fault, whatever the flavor.
C10_EmptyPopReturnsNone ==
    (last.op \in {"pop", "pop_min"} /\ DOMAIN last.before = {}) =>
        /\ fault = "ok"
        /\ ~last.some
        /\ Queue_is_empty(pq.kind, pq.queue)


\* ---------------------------------------------------------- the cost matrix
\* A file is the sequence of its bytes; an offset counts bytes from 0.

\* the native byte order of the targets the crate builds for (os::unix on
\* x86-64 / aarch64) is little-endian: the bytes of one u32, lowest first
u32_to_ne_bytes(v) ==
    << v % 256, (v \div 256) % 256, (v \div 65536) % 256, (v \div 16777216) % 256 >>

\* fn as_u8_slice(v: &[u32]) -> &[u8]: the bytes of the slice in memory order
as_u8_slice(v) ==
    [j \in 1..(4 * Len(v)) |-> u32_to_ne_bytes(v[((j - 1) \div 4) + 1])[((j - 1) % 4) + 1]]

\* u32::from_le_bytes
u32_from_le_bytes(b) == b[1] + 256 * b[2] + 65536 * b[3] + 16777216 * b[4]

\* a write of `bytes` at offset `at`: a write past the end leaves a hole of zeros
File_write_at(file, at, bytes) ==
    [j \in 1..(IF Len(file) > at + Len(bytes) THEN Len(file) ELSE at + Len(bytes)) |->
        IF j > at /\ j <= at + Len(bytes) THEN bytes[j - at]
        ELSE IF j <= Len(file) THEN file[j] ELSE 0]

\* CostMatrix::new(path, size)
CostMatrix_new(file, n) == [inner |-> file, size |-> n]

\* the offset with source and target changing places
CostMatrix_offset_swapped(cm, source, target) ==
    (source - 1) * 4 + (target - 1) * cm.size * 4

\* CostMatrix::get's offset: usize::from(target) * 4 + usize::from(source) * size * 4
CostMatrix_offset(cm, source, target) ==
    (target - 1) * 4 + (source - 1) * cm.size * 4

\* CostMatrix::get(source, target): read_exact_at(bytes, offset) fails with
\* UnexpectedEof when the file ends before offset + 4
CostMatrix_get_at(cm, at) ==
    IF at + 4 > Len(cm.inner)
    THEN [ok |-> FALSE, value |-> 0]
    ELSE [ok |-> TRUE, value |-> u32_from_le_bytes(SubSeq(cm.inner, at + 1, at + 4))]

CostMatrix_get(cm, source, target) ==
    CostMatrix_get_at(cm, CostMatrix_offset(cm, source, target))

\* ------------------------------------------------------------------- apsp
\* std's BufWriter: capacity of BufWriter::new
DEFAULT_BUF_SIZE == 8192

\* BufWriter::flush_buf: the buffered bytes go to the file at its position
BufWriter_flush_buf(w) ==
    [w EXCEPT !.file = File_write_at(w.file, w.pos, w.buf),
              !.pos = w.pos + Len(w.buf),
              !.buf = << >>]

\* impl Seek for BufWriter: flush_buf, then seek the file
BufWriter_seek_flushed(w, at) == [w EXCEPT !.pos = at]

BufWriter_seek(w, at) == BufWriter_seek_flushed(BufWriter_flush_buf(w), at)

\* BufWriter::write_all once the buffer has room or is empty: data of at
\* least the capacity goes straight to the file
BufWriter_write_room(w, data) ==
    IF Len(data) >= DEFAULT_BUF_SIZE
    THEN [w EXCEPT !.file = File_write_at(w.file, w.pos, data),
                   !.pos = w.pos + Len(data)]
    ELSE [w EXCEPT !.buf = w.buf \o data]

\* BufWriter::write_all
BufWriter_write_all(w, data) ==
    IF Len(w.buf) + Len(data) > DEFAULT_BUF_SIZE
    THEN BufWriter_write_room(BufWriter_flush_buf(w), data)
    ELSE BufWriter_write_room(w, data)

\* sssp as one call: `for e in edges.get_neighbors(u) { source.explore(u, dist, e) }`
\* from the i-th neighbor on; r is the shell so far with the way it got there
RECURSIVE sssp_neighbors(_, _, _, _, _)
sssp_neighbors(r, u, dist, ns, i) ==
    IF r.fault # "ok" \/ i > Len(ns) THEN r
    ELSE sssp_neighbors(explore(r.sh, u, dist, ns[i], 0), u, dist, ns, i + 1)

\* sssp: `while let Some((dist, u)) = source.pop_min()` with p the answer of
\* pop_min, and the loop after the neighbors of one vertex
RECURSIVE sssp_popped(_, _)
RECURSIVE sssp_next(_, _)
sssp_popped(g, p) ==
    IF p.fault # "ok" \/ ~p.some THEN Explored(p.sh, p.fault)
    ELSE sssp_next(g, sssp_neighbors(Explored(p.sh, "ok"), p.value, p.key,
                                     get_neighbors(g, p.value), 1))

sssp_next(g, r) == IF r.fault # "ok" THEN r ELSE sssp_popped(g, pop_min(r.sh))

\* pub fn sssp(source, edges) -> D
sssp(source, g) == sssp_popped(g, pop_min(source))

\* const NERF_FACTOR: usize = 200 in the source ("Set to 1 to run full
\* algorithm"): apsp computes the first size / NERF_FACTOR rows. The model
\* scales the factor down with the size of its graphs.
NERF_FACTOR == 1

\* the states of the row tasks: [pc, record]
Task(at, record) == [pc |-> at, record |-> record]

\* the tasks between `wtr.lock()` and the end of the block that holds the guard
InSection == {t \in 1..Len(tasks) : tasks[t].pc \in {"locked", "seeked", "written"}}

\* apsp(size, graph, dir) after File::create, before the parallel for_each over
\* 0..(size / NERF_FACTOR); task t runs the closure for row t - 1
InitApsp ==
    /\ graph \in Graphs
    /\ size = NumV
    /\ tasks = [t \in 1..(NumV \div NERF_FACTOR) |-> Task("start", << >>)]
    /\ wtr = NoWriter
    /\ count = 0
    /\ pc = "apsp"
    /\ fault = "ok"
    /\ edges = << >>
    /\ build = "none"
    /\ swaps = << >>
    /\ phase = << >>
    /\ cost = NoMatrix
    /\ src = UNDEFINED
    /\ tgt = UNDEFINED
    /\ sh = NoShell
    /\ cur = NoPop
    /\ idx = 0
    /\ emitted = << >>
    /\ result = NoResult
    /\ bi_idle
    /\ queue_idle

searchVars == << graph, back, src, tgt, sh, sh2, cur, cur2, idx, emitted, result,
                 naiv, path_len, bridge >>

\* the closure up to `.collect()`: r is what sssp returned;
\* `result.get_dist(v).unwrap()` panics for a vertex sssp did not reach
apsp_recorded(t, r) ==
    IF r.fault = "ok" /\ \A i \in 1..size : get_dist(r.sh, i).some
    THEN tasks' = [tasks EXCEPT ![t] =
                      Task("record", [i \in 1..size |-> r.sh.meta[i].dist])]
    ELSE tasks' = [tasks EXCEPT ![t] = Task("panicked", << >>)]

\* `let source: OwnedLookup<PentaryHeap> = OwnedLookup::from((row.try_into().unwrap(), size));
\*  let result = sssp(source, &graph); let record = ...`
apsp_sssp(t) ==
    /\ pc = "apsp"
    /\ tasks[t].pc = "start"
    /\ apsp_recorded(t, sssp(OwnedLookup_from(4, t), graph))
    /\ UNCHANGED << pc, fault, edges, size, build, wtr, count, swaps, phase, cost >>
    /\ UNCHANGED searchVars
    /\ UNCHANGED queueVars

\* wtr.lock() without the wait for the guard to be free
apsp_lock_free(t) ==
    /\ wtr' = [wtr EXCEPT !.holder = t]
    /\ tasks' = [tasks EXCEPT ![t].pc = "locked"]

\* `let mut lock = wtr.lock().unwrap()`: returns once no other task holds the guard
apsp_lock(t) ==
    /\ wtr.holder = 0
    /\ wtr' = [wtr EXCEPT !.holder = t]
    /\ tasks' = [tasks EXCEPT ![t].pc = "locked"]

apsp_locked(t) ==
    /\ pc = "apsp"
    /\ tasks[t].pc = "record"
    /\ apsp_lock(t)
    /\ UNCHANGED << pc, fault, edges, size, build, count, swaps, phase, cost >>
    /\ UNCHANGED searchVars
    /\ UNCHANGED queueVars

\* the seek offset counted in u32 cells instead of bytes
apsp_row_offset_cells(row) == row * size

\* the seek offset of a row: row * size * size_of::<u32>()
apsp_row_offset(row) == row * size * 4

\* `lock.seek(SeekFrom::Start((row * size * size_of::<u32>()) as u64))`
apsp_seek(t) ==
    /\ pc = "apsp"
    /\ tasks[t].pc = "locked"
    /\ wtr' = BufWriter_seek(wtr, apsp_row_offset(t - 1))
    /\ tasks' = [tasks EXCEPT ![t].pc = "seeked"]
    /\ UNCHANGED << pc, fault, edges, size, build, count, swaps, phase, cost >>
    /\ UNCHANGED searchVars
    /\ UNCHANGED queueVars

\* `lock.write_all(as_u8_slice(&record))`
apsp_write(t) ==
    /\ pc = "apsp"
    /\ tasks[t].pc = "seeked"
    /\ wtr' = BufWriter_write_all(wtr, as_u8_slice(tasks[t].record))
    /\ tasks' = [tasks EXCEPT ![t].pc = "written"]
    /\ UNCHANGED << pc, fault, edges, size, build, count, swaps, phase, cost >>
    /\ UNCHANGED searchVars
    /\ UNCHANGED queueVars

\* the end of the block: the guard is dropped
apsp_unlock(t) ==
    /\ pc = "apsp"
    /\ tasks[t].pc = "written"
    /\ wtr' = [wtr EXCEPT !.holder = 0]
    /\ tasks' = [tasks EXCEPT ![t].pc = "unlocked"]
    /\ UNCHANGED << pc, fault, edges, size, build, count, swaps, phase, cost >>
    /\ UNCHANGED searchVars
    /\ UNCHANGED queueVars

\* `count.fetch_add(1, Ordering::Relaxed) + 1` and the progress line
apsp_count(t) ==
    /\ pc = "apsp"
    /\ tasks[t].pc = "unlocked"
    /\ count' = count + 1
    /\ tasks' = [tasks EXCEPT ![t].pc = "done"]
    /\ UNCHANGED << pc, fault, edges, size, build, wtr, swaps, phase, cost >>
    /\ UNCHANGED searchVars
    /\ UNCHANGED queueVars

\* the for_each has ended, w is the writer after its drop (which flushes):
\* a panic of a task is passed on, else `CostMatrix::new(file_name, size)`
apsp_returned(w) ==
    /\ wtr' = w
    /\ IF \E t \in 1..Len(tasks) : tasks[t].pc = "panicked"
       THEN /\ fault' = "panic"
            /\ pc' = "done"
            /\ cost' = cost
       ELSE /\ fault' = fault
            /\ pc' = "apsp_done"
            /\ cost' = CostMatrix_new(w.file, size)

apsp_return ==
    /\ pc = "apsp"
    /\ \A t \in 1..Len(tasks) : tasks[t].pc \in {"done", "panicked"}
    /\ apsp_returned(BufWriter_flush_buf(wtr))
    /\ UNCHANGED << edges, size, build, tasks, count, swaps, phase >>
    /\ UNCHANGED searchVars
    /\ UNCHANGED queueVars

NextApsp ==
    \/ \E t \in 1..Len(tasks) :
         \/ apsp_sssp(t)
         \/ apsp_locked(t)
         \/ apsp_seek(t)
         \/ apsp_write(t)
         \/ apsp_unlock(t)
         \/ apsp_count(t)
    \/ apsp_return

SpecApsp == InitApsp /\ [][NextApsp]_vars

\* ------------------------------------------------- the cost matrix read alone
\* largest side of a cost matrix read alone
MaxN == 2

\* largest number of get calls on a cost matrix read alone
MaxGets == 2

\* the u32 values of the cells: one for each number of bytes in use
CellValues == {0, 1, 258, 66051, 16909060}

\* an N x N matrix file of little-endian u32 values, row-major, opened by
\* CostMatrix::new(path, N)
InitCost ==
    /\ size \in 1..MaxN
    /\ \E cells \in [1..(size * size) -> CellValues] :
         /\ held = cells
         /\ cost = CostMatrix_new(as_u8_slice(cells), size)
    /\ last = NoCall
    /\ calls = 0
    /\ pq = NoShell
    /\ pc = "cost"
    /\ fault = "ok"
    /\ edges = << >>
    /\ build = "none"
    /\ tasks = << >>
    /\ wtr = NoWriter
    /\ count = 0
    /\ swaps = << >>
    /\ phase = << >>
    /\ search_idle
    /\ bi_idle

\* cost.get(source, target) with g its answer: read_exact_at reads at the
\* offset given and leaves the file and its cursor alone
cost_got_with(source, target, g) ==
    /\ last' = [op |-> "get", some |-> g.ok, key |-> source, value |-> g.value,
                node |-> target, before |-> cost]
    /\ fault' = IF g.ok THEN fault ELSE "io"
    /\ cost' = cost

\* cost.get(source, target) for vertex ids 1..N
cost_get ==
    /\ pc = "cost"
    /\ calls < MaxGets
    /\ \E source \in 1..size, target \in 1..size :
         cost_got_with(source, target, CostMatrix_get(cost, source, target))
    /\ calls' = calls + 1
    /\ UNCHANGED << pc, pq, held, edges, size, build, tasks, wtr, count, swaps, phase >>
    /\ UNCHANGED searchVars

NextCost == cost_get

SpecCost == InitCost /\ [][NextCost]_vars

\* ------------------------------------------------- building the graph alone
\* an edge stream read from a file, before a graph is built from it
InitGraph ==
    /\ edges \in EdgeLists
    /\ size = NumV
    /\ graph = << >>
    /\ back = << >>
    /\ pc = "edges"
    /\ fault = "ok"
    /\ build = "none"
    /\ tasks = << >>
    /\ wtr = NoWriter
    /\ count = 0
    /\ swaps = << >>
    /\ phase = << >>
    /\ cost = NoMatrix
    /\ src = UNDEFINED
    /\ tgt = UNDEFINED
    /\ sh = NoShell
    /\ sh2 = NoShell
    /\ cur = NoPop
    /\ cur2 = NoPop
    /\ idx = 0
    /\ emitted = << >>
    /\ result = NoResult
    /\ naiv = NoResult
    /\ path_len = U32Max
    /\ bridge = UNDEFINED
    /\ queue_idle

\* `let graph: NeighborList = StructuredEdges::new(size, edges)`
graph_new ==
    /\ pc = "edges"
    /\ graph' = StructuredEdges_new(edges)
    /\ pc' = "list"
    /\ UNCHANGED << back, src, tgt, sh, sh2, cur, cur2, idx, emitted, fault, result,
                    naiv, path_len, bridge >>
    /\ UNCHANGED queueVars
    /\ UNCHANGED matVars

\* DicirectionalList::new with d the two lists it built
graph_bi_with(d) ==
    /\ graph' = d.forward
    /\ back' = d.backward

\* `let graph: DicirectionalList<NeighborList> = DicirectionalList::new(size, edges)`
graph_bi_new ==
    /\ pc = "edges"
    /\ graph_bi_with(DicirectionalList_new(edges))
    /\ pc' = "bilist"
    /\ UNCHANGED << src, tgt, sh, sh2, cur, cur2, idx, emitted, fault, result,
                    naiv, path_len, bridge >>
    /\ UNCHANGED queueVars
    /\ UNCHANGED matVars

NextGraph == graph_new \/ graph_bi_new

SpecGraph == InitGraph /\ [][NextGraph]_vars

\* ------------------------------------------------- blocked Warshall-Floyd
\* all_pairs.rs: const BLOCK_SIZE: usize = 4096 * 3, scaled down
BLOCK_SIZE == 2

\* the number of cells of a tile, BLOCK_SIZE * BLOCK_SIZE
TileLen == BLOCK_SIZE * BLOCK_SIZE

\* a Vec<u32> of a tile and how the function that made it ended
Tile(m, f) == [m |-> m, fault |-> f]

\* u32 `+`: a debug build panics on overflow, a release build wraps around
\* (modulo U32Max + 1, the width of the model's integers)
add_u32(b, x, y) ==
    IF x <= U32Max - y THEN [ok |-> TRUE, value |-> x + y]
    ELSE IF b = "debug" THEN [ok |-> FALSE, value |-> 0]
    ELSE [ok |-> TRUE, value |-> x - (U32Max - y) - 1]

\* graph2matrix, the loop over the bucket of row i from entry n on:
\* `let j = usize::from(e.to); if j < col_end && col_start <= j
\*  { matrix[i * BLOCK_SIZE + j] = e.weight }`, j not reduced by col_start
RECURSIVE graph2matrix_bucket(_, _, _, _, _)
graph2matrix_bucket(m, ns, n, i, col) ==
    IF n > Len(ns) THEN Tile(m, "ok")
    ELSE IF ns[n].to - 1 < col * BLOCK_SIZE + BLOCK_SIZE /\ col * BLOCK_SIZE <= ns[n].to - 1
    THEN IF i * BLOCK_SIZE + (ns[n].to - 1) >= TileLen
         THEN Tile(m, "panic")
         ELSE graph2matrix_bucket(
                  [m EXCEPT ![i * BLOCK_SIZE + (ns[n].to - 1) + 1] = ns[n].weight],
                  ns, n + 1, i, col)
    ELSE graph2matrix_bucket(m, ns, n + 1, i, col)

\* graph2matrix, the loop `for i in 0..BLOCK_SIZE` from i on; t is the tile
\* after the rows before i. `graph[row_start + i]` panics past the last bucket
RECURSIVE graph2matrix_rows(_, _, _, _, _)
graph2matrix_rows(t, g, row, col, i) ==
    IF t.fault # "ok" \/ i = BLOCK_SIZE THEN t
    ELSE IF row * BLOCK_SIZE + i >= Len(g) THEN Tile(t.m, "panic")
    ELSE graph2matrix_rows(
             graph2matrix_bucket([t.m EXCEPT ![i * BLOCK_SIZE + i + 1] = 0],
                                 g[row * BLOCK_SIZE + i + 1], 1, i, col),
             g, row, col, i + 1)

\* graph2matrix(graph, row, col); bucket u of g is graph[u - 1]
graph2matrix(g, row, col) ==
    graph2matrix_rows(Tile([c \in 1..TileLen |-> U32Max], "ok"), g, row, col, 0)

\* transpose(a): b[BLOCK_SIZE * j + i] = a[BLOCK_SIZE * i + j]
transpose(a) ==
    [c \in 1..TileLen |->
        a[BLOCK_SIZE * ((c - 1) % BLOCK_SIZE) + ((c - 1) \div BLOCK_SIZE) + 1]]

\* wf_block, one pass of the innermost statement with s the sum:
\* `a.0[BLOCK_SIZE * i + j] = u32::min(a.0[BLOCK_SIZE * i + j], s)`
wf_block_min(a, i, j, s) ==
    IF s.ok
    THEN Tile([a EXCEPT ![BLOCK_SIZE * i + j + 1] = Min2(a[BLOCK_SIZE * i + j + 1], s.value)], "ok")
    ELSE Tile(a, "panic")

\* wf_block, the three loops flattened: step n stands for
\* k = n / BLOCK_SIZE^2, i = (n / BLOCK_SIZE) % BLOCK_SIZE, j = n % BLOCK_SIZE.
\* Indexing a Vec shorter than a tile panics
RECURSIVE wf_block_from(_, _, _, _)
wf_block_from(bd, t, b, n) ==
    IF t.fault # "ok" \/ n = TileLen * BLOCK_SIZE THEN t
    ELSE IF Len(t.m) < TileLen \/ Len(b) < TileLen THEN Tile(t.m, "panic")
    ELSE wf_block_from(
             bd,
             wf_block_min(t.m, (n \div BLOCK_SIZE) % BLOCK_SIZE, n % BLOCK_SIZE,
                          add_u32(bd,
                                  t.m[BLOCK_SIZE * (n \div TileLen) + ((n \div BLOCK_SIZE) % BLOCK_SIZE) + 1],
                                  b[BLOCK_SIZE * (n \div TileLen) + (n % BLOCK_SIZE) + 1])),
             b, n + 1)

\* wf_block(a, b) under build profile bd
wf_block(bd, a, b) == wf_block_from(bd, Tile(a, "ok"), b, 0)

\* The cells of the tiles wf_block is called on alone: small weights, and
\* u32::MAX (no edge) with its neighbour
BlockCells == {0, 1, U32Max - 1, U32Max}

\* wf_block about to be called on tiles a and b
InitBlock ==
    /\ build \in {"debug", "release"}
    /\ \E a \in [1..TileLen -> BlockCells] :
         \E b \in [1..TileLen -> BlockCells] :
            phase = [a |-> a, b |-> b, out |-> << >>]
    /\ pc = "block"
    /\ fault = "ok"
    /\ edges = << >>
    /\ size = 0
    /\ tasks = << >>
    /\ wtr = NoWriter
    /\ count = 0
    /\ swaps = << >>
    /\ cost = NoMatrix
    /\ search_idle
    /\ bi_idle
    /\ queue_idle

\* `a = wf_block(a, &b)` with r what the call gave
wf_block_returned(r) ==
    /\ phase' = [phase EXCEPT !.out = r.m]
    /\ fault' = r.fault
    /\ pc' = "block_done"

wf_block_call ==
    /\ pc = "block"
    /\ wf_block_returned(wf_block(build, phase.a, phase.b))
    /\ UNCHANGED << edges, size, build, tasks, wtr, count, swaps, cost >>
    /\ UNCHANGED searchVars
    /\ UNCHANGED << pq, held, last, calls >>

NextBlock == wf_block_call

SpecBlock == InitBlock /\ [][NextBlock]_vars

\* A tile file behind its Mutex: the cells written so far, the cursor (both
\* counted in cells: as_u8_slice and as_u8_slice_mut lay every cell out as the
\* same four bytes of memory), and whether a panic under the lock poisoned it
NewFile == [data |-> << >>, pos |-> 0, poisoned |-> FALSE]

\* what a statement on swaps gives: the tile files after it, the cells read
\* and how it ended
Swapped(sw, cells, f) == [sw |-> sw, cells |-> cells, fault |-> f]

\* Write::write_all at the cursor
File_write_all(f, cells) ==
    [f EXCEPT !.data = [c \in 1..(IF Len(f.data) > f.pos + Len(cells)
                                  THEN Len(f.data) ELSE f.pos + Len(cells)) |->
                           IF c > f.pos /\ c <= f.pos + Len(cells)
                           THEN cells[c - f.pos] ELSE f.data[c]],
              !.pos = f.pos + Len(cells)]

\* `swaps[x].lock().unwrap().as_mut().unwrap().write_all(as_u8_slice(&w.0)).unwrap()`:
\* lock() of a poisoned Mutex is an Err and unwrap panics
swaps_write(sw, x, cells) ==
    IF sw[x + 1].poisoned THEN Swapped(sw, << >>, "panic")
    ELSE Swapped([sw EXCEPT ![x + 1] = File_write_all(sw[x + 1], cells)], << >>, "ok")

\* `swaps[x].lock().unwrap().as_mut().unwrap().read_exact(as_u8_slice_mut(buf)).unwrap()`
\* for a whole tile: read_exact is Err(UnexpectedEof) when the file ends before
\* the buffer is full, and the panic of unwrap, under the guard, poisons the Mutex
swaps_read(sw, x) ==
    IF sw[x + 1].poisoned THEN Swapped(sw, << >>, "panic")
    ELSE IF sw[x + 1].pos + TileLen > Len(sw[x + 1].data)
    THEN Swapped([sw EXCEPT ![x + 1].pos = Len(sw[x + 1].data),
                            ![x + 1].poisoned = TRUE], << >>, "panic")
    ELSE Swapped([sw EXCEPT ![x + 1].pos = sw[x + 1].pos + TileLen],
                 SubSeq(sw[x + 1].data, sw[x + 1].pos + 1, sw[x + 1].pos + TileLen), "ok")

\* `let (mut num_blocks, rem) = (size / BLOCK_SIZE, size % BLOCK_SIZE);
\*  if rem > 0 { num_blocks = num_blocks + 1 }`
num_blocks == (size \div BLOCK_SIZE) + (IF size % BLOCK_SIZE > 0 THEN 1 ELSE 0)

\* a task of a fan-out `(1..num_blocks).into_par_iter().for_each(..)`: where
\* it stands, its index, the j of the inner loop, its tile and its buf
WfTask(at, id, j, tile, buf) ==
    [at |-> at, id |-> id, j |-> j, tile |-> tile, buf |-> buf]

\* the tasks of a fan-out before any of them ran
fan_out == [t \in 1..(num_blocks - 1) |-> WfTask("start", t, 1, << >>, << >>)]

\* an entry of the log of a run: round 0 is the "first round" block, round
\* k + 1 the pass k of `for k in 0..num_blocks`
Ev(round, what, id) == [round |-> round, what |-> what, id |-> id]

\* the largest `size`: three blocks
MaxSize == 3 * BLOCK_SIZE

\* NeighborList::new(n, edges) for the edge streams among n vertices
WfGraphs(n) ==
    {[u \in 1..n |-> bucket(es, u)] :
        es \in {s \in EdgeLists : \A i \in 1..Len(s) : s[i].from <= n /\ s[i].to <= n}}

\* warshall_floyd(size, graph, dir) after "init swaps", before the first round
InitWf ==
    /\ size \in 1..MaxSize
    /\ graph \in WfGraphs(size)
    /\ build \in {"debug", "release"}
    /\ swaps = [x \in 1..(num_blocks * num_blocks) |-> NewFile]
    /\ phase = [round |-> 0, stage |-> "diag", wkkt |-> << >>, log |-> << >>]
    /\ tasks = << >>
    /\ pc = "wf"
    /\ fault = "ok"
    /\ edges = << >>
    /\ wtr = NoWriter
    /\ count = 0
    /\ cost = NoMatrix
    /\ back = << >>
    /\ src = UNDEFINED
    /\ tgt = UNDEFINED
    /\ sh = NoShell
    /\ cur = NoPop
    /\ idx = 0
    /\ emitted = << >>
    /\ result = NoResult
    /\ sh2 = NoShell
    /\ cur2 = NoPop
    /\ naiv = NoResult
    /\ path_len = U32Max
    /\ bridge = UNDEFINED
    /\ queue_idle

\* what no step of warshall_floyd touches
wfFrame == << graph, back, src, tgt, sh, sh2, cur, cur2, idx, emitted, result, naiv,
             path_len, bridge, pq, held, last, calls, edges, size, build, wtr, count >>

\* the main thread panicked: warshall_floyd unwinds
wf_panic(sw) ==
    /\ swaps' = sw
    /\ fault' = "panic"
    /\ pc' = "done"
    /\ UNCHANGED << phase, tasks, cost >>

\* the diagonal tile after `wkk = wf_block(wkk, &wkkt)`, with w what
\* `swaps[0]...write_all(as_u8_slice(&wkk.0)).unwrap()` gave: the j fan-out starts
wf_diag_written(w, wkkt) ==
    IF w.fault # "ok" THEN wf_panic(w.sw)
    ELSE /\ swaps' = w.sw
         /\ phase' = [phase EXCEPT !.stage = "j", !.wkkt = wkkt,
                                   !.log = @ \o << Ev(phase.round, "diag", 0) >>]
         /\ tasks' = fan_out
         /\ UNCHANGED << pc, fault, cost >>

\* b is what wf_block gave for the diagonal tile, read or built with sw the
\* tile files after that
wf_diag_crossed(sw, b, wkkt) ==
    IF b.fault # "ok" THEN wf_panic(sw)
    ELSE wf_diag_written(swaps_write(sw, 0, b.m), wkkt)

\* the diagonal tile t of the round is at hand
wf_diag_tile(sw, t) ==
    IF t.fault # "ok" THEN wf_panic(sw)
    ELSE wf_diag_crossed(sw, wf_block(build, t.m, transpose(t.m)), transpose(t.m))

\* "first round (k = 0)", up to the first fan-out: the diagonal tile comes
\* from graph2matrix(&graph.forward, 0, 0)
wf_first ==
    /\ pc = "wf"
    /\ phase.round = 0
    /\ phase.stage = "diag"
    /\ wf_diag_tile(swaps, graph2matrix(graph, 0, 0))
    /\ UNCHANGED wfFrame

\* the last block of warshall_floyd: the tile files after the reads so far,
\* the BufWriter of the output file, and how the block ended
Collected(sw, w, f) == [sw |-> sw, w |-> w, fault |-> f]

\* one pass of the innermost loop with rd what read_exact gave:
\* `let index = ((b_i * num_blocks + b_j) * BLOCK_SIZE + num_blocks * r)
\*      * BLOCK_SIZE * size_of::<u32>(); wtr.seek(SeekFrom::Start(index)); wtr.write_all(as_u8_slice(&buf))`
wf_collect_write(w, rd, x, r) ==
    IF rd.fault # "ok" THEN Collected(rd.sw, w, "panic")
    ELSE Collected(rd.sw,
                   BufWriter_write_all(
                       BufWriter_seek(w, (x * BLOCK_SIZE + num_blocks * r) * BLOCK_SIZE * 4),
                       as_u8_slice(rd.cells)),
                   "ok")

\* the loops `for b_i .. for r in 0..BLOCK_SIZE .. for b_j ..` flattened: pass n
\* stands for b_i = n / (BLOCK_SIZE * num_blocks), r = (n / num_blocks) % BLOCK_SIZE,
\* b_j = n % num_blocks; every pass reads a whole tile from the cursor of
\* swaps[b_i * num_blocks + b_j] (buf is made with_capacity(BLOCK_SIZE) and
\* set_len(BLOCK_SIZE * BLOCK_SIZE); the model lets it hold the tile)
RECURSIVE wf_collect(_, _)
wf_collect(c, n) ==
    IF c.fault # "ok" \/ n = num_blocks * BLOCK_SIZE * num_blocks THEN c
    ELSE wf_collect(
             wf_collect_write(
                 c.w,
                 swaps_read(c.sw, (n \div (BLOCK_SIZE * num_blocks)) * num_blocks + (n % num_blocks)),
                 (n \div (BLOCK_SIZE * num_blocks)) * num_blocks + (n % num_blocks),
                 (n \div num_blocks) % BLOCK_SIZE),
             n + 1)

\* the end of warshall_floyd with c what the last block gave: the BufWriter
\* is dropped (flushed) and CostMatrix::new(file_name, size) opens the file
wf_returned(c) ==
    IF c.fault # "ok" THEN wf_panic(c.sw)
    ELSE /\ swaps' = c.sw
         /\ cost' = CostMatrix_new(BufWriter_flush_buf(c.w).file, size)
         /\ pc' = "wf_done"
         /\ UNCHANGED << fault, phase, tasks >>

\* pass k of `for k in 0..num_blocks` up to its first fan-out, with rd what
\* `swaps[k * num_blocks + k]...read_exact(..)` gave
wf_phase_read(rd) == wf_diag_tile(rd.sw, Tile(rd.cells, rd.fault))

\* the head of `for k in 0..num_blocks` (k = phase.round - 1): the next pass,
\* or after the last one the block that collects the tiles
wf_phase ==
    /\ pc = "wf"
    /\ phase.round >= 1
    /\ phase.stage = "diag"
    /\ IF phase.round - 1 < num_blocks
       THEN wf_phase_read(swaps_read(swaps, (phase.round - 1) * num_blocks + (phase.round - 1)))
       ELSE wf_returned(wf_collect(Collected(swaps, NoWriter, "ok"), 0))
    /\ UNCHANGED wfFrame

\* a task ended: its last entry of the log
wf_task_end(t, at, what) ==
    /\ tasks' = [tasks EXCEPT ![t].at = at]
    /\ phase' = [phase EXCEPT !.log = @ \o << Ev(phase.round, what, tasks[t].id) >>]

\* the j task with b what `wkj = wf_block(wkj, &wkkt)` gave
wf_j_crossed(t, b) ==
    IF b.fault # "ok"
    THEN /\ tasks' = [tasks EXCEPT ![t].at = "panicked"]
         /\ phase' = [phase EXCEPT !.log = @ \o << Ev(phase.round, "j", tasks[t].id),
                                                   Ev(phase.round, "j_end", tasks[t].id) >>]
    ELSE /\ tasks' = [tasks EXCEPT ![t].at = "computed", ![t].tile = b.m]
         /\ phase' = [phase EXCEPT !.log = @ \o << Ev(phase.round, "j", tasks[t].id) >>]

\* the tile of a j task is at hand (sw the tile files after a read)
wf_j_tile(t, sw, g) ==
    /\ swaps' = sw
    /\ wf_j_crossed(t, IF g.fault # "ok" THEN g ELSE wf_block(build, g.m, phase.wkkt))

\* a read that gave a tile, as the Tile it is
read_tile(rd) == Tile(rd.cells, rd.fault)

\* a j task up to its write: in the first round
\* `let mut wkj = Matrix(graph2matrix(&graph.forward, 0, j))`, in pass k the
\* tile read from swaps[k * num_blocks + j]; then wf_block
wf_j_start(t) ==
    /\ pc = "wf"
    /\ phase.stage = "j"
    /\ tasks[t].at = "start"
    /\ IF phase.round = 0
       THEN wf_j_tile(t, swaps, graph2matrix(graph, 0, tasks[t].id))
       ELSE \E rd \in {swaps_read(swaps, (phase.round - 1) * num_blocks + tasks[t].id)} :
               wf_j_tile(t, rd.sw, read_tile(rd))
    /\ UNCHANGED << pc, fault, cost >>
    /\ UNCHANGED wfFrame

\* the j task with w what its write gave
wf_j_written(t, w) ==
    /\ swaps' = w.sw
    /\ wf_task_end(t, IF w.fault = "ok" THEN "done" ELSE "panicked", "j_end")

\* `swaps[j]...write_all(as_u8_slice(&wkj.0)).unwrap()`, the end of a j task
wf_j_write(t) ==
    /\ pc = "wf"
    /\ phase.stage = "j"
    /\ tasks[t].at = "computed"
    /\ wf_j_written(t, swaps_write(swaps, tasks[t].id, tasks[t].tile))
    /\ UNCHANGED << pc, fault, cost >>
    /\ UNCHANGED wfFrame

\* for_each returns once every task of the fan-out has ended
fan_out_any == TRUE

fan_out_done == \A t \in 1..Len(tasks) : tasks[t].at \in {"done", "panicked"}

\* the end of a fan-out: for_each hands the panic of a task on to the main
\* thread; else the i fan-out follows the j fan-out, and the next pass of the
\* loop the i fan-out
wf_join ==
    /\ pc = "wf"
    /\ phase.stage \in {"j", "i"}
    /\ fan_out_done
    /\ IF \E t \in 1..Len(tasks) : tasks[t].at = "panicked"
       THEN wf_panic(swaps)
       ELSE /\ IF phase.stage = "j"
               THEN /\ phase' = [phase EXCEPT !.stage = "i"]
                    /\ tasks' = fan_out
               ELSE /\ phase' = [phase EXCEPT !.stage = "diag", !.round = @ + 1,
                                              !.log = @ \o << Ev(phase.round + 1, "pass", 0) >>]
                    /\ tasks' = << >>
            /\ UNCHANGED << pc, fault, swaps, cost >>
    /\ UNCHANGED wfFrame

\* an i task panicked with the tile files as sw
wf_i_panicked(t, sw, started) ==
    /\ swaps' = sw
    /\ tasks' = [tasks EXCEPT ![t].at = "panicked"]
    /\ phase' = [phase EXCEPT !.log = @ \o (IF started THEN << >>
                                            ELSE << Ev(phase.round, "i", tasks[t].id) >>)
                                        \o << Ev(phase.round, "i_end", tasks[t].id) >>]

\* the i task with w what `swaps[i * num_blocks]...write_all(as_u8_slice(&wik.0))` gave
wf_i_written(t, w, wik, buf) ==
    IF w.fault # "ok" THEN wf_i_panicked(t, w.sw, FALSE)
    ELSE /\ swaps' = w.sw
         /\ tasks' = [tasks EXCEPT ![t].at = "inner", ![t].tile = wik, ![t].buf = buf]
         /\ phase' = [phase EXCEPT !.log = @ \o << Ev(phase.round, "i", tasks[t].id) >>]

\* the i task with b what `wik = wf_block(wik, &wkkt)` gave
wf_i_crossed(t, sw, b, buf) ==
    IF b.fault # "ok" THEN wf_i_panicked(t, sw, FALSE)
    ELSE wf_i_written(t, swaps_write(sw, tasks[t].id * num_blocks, b.m), b.m, buf)

\* the i task in pass k with rd what the read of swaps[i * num_blocks + k]
\* into buf gave: `let wik = Vec::with_capacity(BLOCK_SIZE * BLOCK_SIZE)` is the
\* empty Vec, and it is the one wf_block gets
wf_i_read(t, rd) ==
    IF rd.fault # "ok" THEN wf_i_panicked(t, rd.sw, FALSE)
    ELSE wf_i_crossed(t, rd.sw, wf_block(build, << >>, phase.wkkt), rd.cells)

\* the i task in the first round with g what graph2matrix(&graph.forward, i, 0) gave
wf_i_built(t, g) ==
    IF g.fault # "ok" THEN wf_i_panicked(t, swaps, FALSE)
    ELSE wf_i_crossed(t, swaps, wf_block(build, g.m, phase.wkkt), << >>)

\* an i task up to its inner loop
wf_i_start(t) ==
    /\ pc = "wf"
    /\ phase.stage = "i"
    /\ tasks[t].at = "start"
    /\ IF phase.round = 0
       THEN wf_i_built(t, graph2matrix(graph, tasks[t].id, 0))
       ELSE wf_i_read(t, swaps_read(swaps, tasks[t].id * num_blocks + (phase.round - 1)))
    /\ UNCHANGED << pc, fault, cost >>
    /\ UNCHANGED wfFrame

\* one pass of `for j in 1..num_blocks` with w what the write of wij to
\* swaps[i * num_blocks + j] gave; `buf = wij.0`
wf_i_stored(t, w, wij) ==
    IF w.fault # "ok" THEN wf_i_panicked(t, w.sw, TRUE)
    ELSE /\ swaps' = w.sw
         /\ IF tasks[t].j + 1 < num_blocks
            THEN /\ tasks' = [tasks EXCEPT ![t].j = @ + 1, ![t].buf = wij]
                 /\ UNCHANGED phase
            ELSE /\ tasks' = [tasks EXCEPT ![t].j = @ + 1, ![t].buf = wij, ![t].at = "done"]
                 /\ phase' = [phase EXCEPT !.log = @ \o << Ev(phase.round, "i_end", tasks[t].id) >>]

\* the pass with b what `wf_block(wkj, &wikt)` gave
wf_i_merged(t, sw, b) ==
    IF b.fault # "ok" THEN wf_i_panicked(t, sw, TRUE)
    ELSE wf_i_stored(t, swaps_write(sw, tasks[t].id * num_blocks + tasks[t].j, b.m), b.m)

\* the pass with rd what the read of swaps[j] gave: `let wkj = Matrix(buf);
\* let wikt = transpose(&wik); let wij = wf_block(wkj, &wikt)`
wf_i_fetched(t, rd) ==
    IF rd.fault # "ok" THEN wf_i_panicked(t, rd.sw, TRUE)
    ELSE wf_i_merged(t, rd.sw, wf_block(build, rd.cells, transpose(tasks[t].tile)))

\* one pass of the inner loop of an i task: the read of swaps[j] under its
\* lock, then the write of swaps[i * num_blocks + j], a file no other task of
\* the fan-out touches
wf_i_inner(t) ==
    /\ pc = "wf"
    /\ phase.stage = "i"
    /\ tasks[t].at = "inner"
    /\ wf_i_fetched(t, swaps_read(swaps, tasks[t].j))
    /\ UNCHANGED << pc, fault, cost >>
    /\ UNCHANGED wfFrame

NextWf ==
    \/ wf_first
    \/ wf_phase
    \/ wf_join
    \/ \E t \in 1..Len(tasks) :
         \/ wf_j_start(t)
         \/ wf_j_write(t)
         \/ wf_i_start(t)
         \/ wf_i_inner(t)

SpecWf == InitWf /\ [][NextWf]_vars

\* ------------------------------------------- the three drivers, run to the end
\* sssp, and sp_naiv followed by sp_bi, as loops that keep running: a driver
\* is sequential code, so a step that can be taken is taken.

\* largest number of edges of a graph a driver is run to the end on
MaxFairEdges == 2

\* the number of edges of the lists 1..n of g
RECURSIVE EdgeCount(_, _)
EdgeCount(g, n) == IF n = 0 THEN 0 ELSE Len(g[n]) + EdgeCount(g, n - 1)

\* the arity of the d-ary heaps in these runs: a queue holds at most
\* 1 + MaxFairEdges items here, and up to that length the heap of every
\* arity is the same array under the same comparisons
FairArity == 2

InitDrivers ==
    /\ InitSssp \/ InitSp
    /\ src \in 1..NumSources
    /\ sh.k \in {0, FairArity}
    /\ EdgeCount(graph, NumV) <= MaxFairEdges

NextDrivers ==
    \/ sssp_pop
    \/ sssp_explore
    \/ sp_naiv_pop
    \/ sp_naiv_explore
    \/ sp_bi_start
    \/ sp_bi_pop
    \/ sp_bi_fwd
    \/ sp_bi_bwd
    \/ sp_bi_stop

SpecDrivers == InitDrivers /\ [][NextDrivers]_vars /\ WF_vars(NextDrivers)

\* -------------------------------------------------------------- C11 .. C20

\* C11: sp_bi ends by returning None or Some((dist, route)) and never aborts:
\* whenever the stop condition fires, get_path(bridge) succeeds on the source
\* shell and on the target shell.
C11_BiNeverAborts ==
    pc \in {"bi_pop", "bi_fwd", "bi_bwd", "bi_stop", "done"} => fault = "ok"

\* C12: after apsp returns, under any interleaving of the row tasks, the
\* value CostMatrix::get reads at (row r + 1, column c + 1), i.e. at byte
\* offset (r * size + c) * 4, is the distance of vertex c + 1 in an SSSP from
\* vertex r + 1, for every computed row r; the diagonal entries are 0.
C12_ApspRows ==
    pc = "apsp_done" =>
        \A r \in 0..((size \div NERF_FACTOR) - 1) : \A c \in 0..(size - 1) :
            /\ CostMatrix_offset(cost, r + 1, c + 1) = (r * size + c) * 4
            /\ CostMatrix_get(cost, r + 1, c + 1) =
                  [ok |-> TRUE, value |-> ShortestDist(graph, r + 1)[c + 1]]

\* apsp returned a matrix of at least two computed rows that holds a distance
\* over more than one edge
C12_Witness ==
    /\ pc = "apsp_done"
    /\ Len(tasks) >= 2
    /\ \E r \in 1..Len(tasks) : \E c \in 1..size :
         /\ CostMatrix_get(cost, r, c).value > 0
         /\ \A i \in 1..Len(graph[r]) :
              graph[r][i].to = c => graph[r][i].weight > CostMatrix_get(cost, r, c).value

\* C13: in apsp the seek and the write of a row happen inside one critical
\* section of the mutex: no two tasks are between lock and unlock at once, the
\* position a task has sought is still the writer's position when it writes,
\* and the mutex is not held by a task that runs SSSP.
C13_OneWriter ==
    /\ Cardinality(InSection) <= 1
    /\ \A t \in InSection : wtr.holder = t
    /\ \A t \in 1..Len(tasks) :
         /\ tasks[t].pc = "start" => wtr.holder # t
         /\ tasks[t].pc = "seeked" =>
               wtr.pos = (t - 1) * size * 4 /\ wtr.buf = << >>
         /\ tasks[t].pc = "written" =>
               wtr.pos = (t - 1) * size * 4 /\ wtr.buf = as_u8_slice(tasks[t].record)

\* a task has sought its row while another waits for the mutex with its record
\* and a third still runs SSSP
C13_Witness ==
    \E t \in 1..Len(tasks) : \E u \in 1..Len(tasks) : \E v \in 1..Len(tasks) :
        /\ tasks[t].pc = "seeked"
        /\ tasks[u].pc = "record"
        /\ tasks[v].pc = "start"

\* C17: on a row-major N x N file of little-endian u32 values,
\* CostMatrix::get(source, target) returns the element of row source - 1 and
\* column target - 1 for all ids 1..N, and leaves the matrix as it was, so
\* that gets in any order return the same values.
C17_GetReadsCell ==
    (pc = "cost" /\ last.op = "get") =>
        /\ fault = "ok"
        /\ last.some
        /\ last.value = held[(last.key - 1) * size + (last.node - 1) + 1]
        /\ cost = last.before
        /\ cost.inner = as_u8_slice(held)

\* a second get read the four-byte value of a cell off the diagonal
C17_Witness ==
    /\ pc = "cost"
    /\ calls = 2
    /\ last.op = "get"
    /\ last.key # last.node
    /\ last.value = 16909060
    /\ held[(last.node - 1) * size + (last.key - 1) + 1] # last.value

\* the positions of the input edges that leave u, and of those that enter u
Leaving(u) == {i \in 1..Len(edges) : edges[i].from = u}
Entering(u) == {i \in 1..Len(edges) : edges[i].to = u}

\* the k-th smallest member of a set of positions
Kth(P, k) == CHOOSE i \in P : Cardinality({j \in P : j <= i}) = k

\* C18: StructuredEdges::new puts into bucket slot(u) one entry (v, w) for
\* every input edge occurrence (u, v, w) and nothing else, in input order;
\* DicirectionalList::new builds forward from the edges as given and backward
\* from the edges with from and to swapped and the weight unchanged.
C18_BucketsHoldEdges ==
    /\ pc \in {"list", "bilist"} =>
          \A u \in Vertices :
             /\ Len(graph[u]) = Cardinality(Leaving(u))
             /\ \A k \in 1..Len(graph[u]) :
                   graph[u][k] = [to |-> edges[Kth(Leaving(u), k)].to,
                                  weight |-> edges[Kth(Leaving(u), k)].weight]
    /\ pc = "bilist" =>
          \A u \in Vertices :
             /\ Len(back[u]) = Cardinality(Entering(u))
             /\ \A k \in 1..Len(back[u]) :
                   back[u][k] = [to |-> edges[Kth(Entering(u), k)].from,
                                 weight |-> edges[Kth(Entering(u), k)].weight]
             /\ \A v \in Vertices : \A w \in Weights :
                   Cardinality({k \in 1..Len(graph[u]) : graph[u][k] = [to |-> v, weight |-> w]})
                   = Cardinality({k \in 1..Len(back[v]) : back[v][k] = [to |-> u, weight |-> w]})

\* both lists built from three edges, two of them parallel edges of different
\* weight with another edge between them in the input
C18_Witness ==
    /\ pc = "bilist"
    /\ Len(edges) = 3
    /\ edges[1].from = edges[3].from
    /\ edges[1].to = edges[3].to
    /\ edges[1].weight # edges[3].weight
    /\ edges[2].from # edges[1].from
    /\ edges[1].from # edges[1].to

\* C19: Search::pop_min replaces the handle of the popped vertex in meta by
\* the null handle, so that the handle of a vertex is null exactly when the
\* vertex has been emitted; Search::explore on a vertex whose handle is null
\* changes neither the queue nor meta.
C19_HandleNulledOnPop ==
    sh.kind = "Search" =>
        \A v \in Vertices :
            sh.meta[v].has =>
                /\ (sh.meta[v].link = 0) <=> (v \in EmittedValues)
                /\ sh.meta[v].link = 0 =>
                      \A w \in Weights :
                         Search_explore(sh, cur.u, cur.dist, Neighbor(v, w)) = Explored(sh, "ok")

\* C20: on the pairing heap, decrease_key with the null handle or with the
\* handle of an item that pop has returned does not fault and leaves every
\* node of the heap, and with them the items, their keys and the order of
\* later pops, as they were.
C20_StaleDecreaseNoOp ==
    last.op = "decrease_stale" =>
        /\ fault = "ok"
        /\ pq.queue.main = last.before.main
        /\ pq.queue.aux = last.before.aux
        /\ \A n \in PairingHeap_nodes(last.before) :
              pq.queue.nodes[n] = last.before.nodes[n]

\* the sum of the spec: u32::MAX is infinity, and a sum past it stays there
saturating_sum(x, y) ==
    IF x = U32Max \/ y = U32Max \/ x > U32Max - y THEN U32Max ELSE x + y

\* wf_block with the saturating sum, from step n on
RECURSIVE saturating_block(_, _, _)
saturating_block(a, b, n) ==
    IF n = TileLen * BLOCK_SIZE THEN a
    ELSE saturating_block(
             [a EXCEPT ![BLOCK_SIZE * ((n \div BLOCK_SIZE) % BLOCK_SIZE) + (n % BLOCK_SIZE) + 1] =
                 Min2(a[BLOCK_SIZE * ((n \div BLOCK_SIZE) % BLOCK_SIZE) + (n % BLOCK_SIZE) + 1],
                      saturating_sum(
                          a[BLOCK_SIZE * (n \div TileLen) + ((n \div BLOCK_SIZE) % BLOCK_SIZE) + 1],
                          b[BLOCK_SIZE * (n \div TileLen) + (n % BLOCK_SIZE) + 1]))],
             b, n + 1)

\* C15: the sum wf_block relaxes with saturates: with an operand u32::MAX it
\* is u32::MAX, it never wraps around and never faults, so wf_block returns
\* the tile the saturating sum gives and lowers no entry by an overflowed sum.
C15_SumSaturates ==
    pc = "block_done" =>
        /\ fault = "ok"
        /\ phase.out = saturating_block(phase.a, phase.b, 0)

\* entry p of the log of warshall_floyd has an entry e before it
Before(p, e) == \E q \in 1..(p - 1) : phase.log[q] = e

WfNeverReturns == pc # "wf_done"

\* --------------------------------------------------------------- C21 .. C30

\* one step of a search seen from vertex v of a NoLookup shell
NoLookup_moves(v) ==
    /\ sh.meta[v].has => sh'.meta[v].has
    /\ (~sh.meta[v].has /\ sh'.meta[v].has) =>
          /\ pc = "explore"
          /\ get_neighbors(graph, cur.u)[idx + 1].to = v
          /\ ~sh'.meta[v].some
          /\ sh'.meta[v].prev = cur.u
    /\ ~sh.meta[v].has => ~sh'.meta[v].some
    /\ (~sh.meta[v].some /\ sh'.meta[v].some) =>
          /\ pc = "pop"
          /\ cur' = [dist |-> sh'.meta[v].dist, u |-> v]
    /\ sh.meta[v].some => sh'.meta[v] = sh.meta[v]

\* C21: in the NoLookup shell a vertex goes from no entry to an entry with
\* None only by an explore of it, from None to Some(k) only by the pop_min
\* that returns (k, v), and an entry with Some(k) is never changed again,
\* neither its key nor its prev, while every explore pushes one item.
C21_NoLookupLifecycle ==
    [][sh.kind \in {"NoLookupList", "NoLookupHeap"} =>
          /\ \A v \in Vertices : NoLookup_moves(v)
          /\ pc = "explore" => Len(sh'.queue.inner) = Len(sh.queue.inner) + 1]_vars

\* a settled vertex was explored again from another vertex than its prev, and
\* the queue holds the item pushed for it
C21_Witness ==
    /\ sh.kind \in {"NoLookupList", "NoLookupHeap"}
    /\ pc \in {"pop", "explore"}
    /\ tgt = UNDEFINED
    /\ idx >= 1
    /\ sh.meta[get_neighbors(graph, cur.u)[idx].to].some
    /\ sh.meta[get_neighbors(graph, cur.u)[idx].to].prev # cur.u
    /\ \E i \in 1..Len(sh.queue.inner) :
          sh.queue.inner[i].value = get_neighbors(graph, cur.u)[idx].to

\* the explore of vertex v with the sum alt, as Search and OwnedLookup make it
Forward_explores(v, alt) ==
    /\ \A u \in Vertices \ {v} : sh'.meta[u] = sh.meta[u]
    /\ IF ~sh.meta[v].has
       THEN /\ sh'.meta[v].has
            /\ sh'.meta[v].dist = alt
            /\ sh'.meta[v].prev = cur.u
            /\ Contents(sh.kind, sh'.queue) = BagAdd(Contents(sh.kind, sh.queue), Item(alt, v))
       ELSE IF alt < sh.meta[v].dist
       THEN /\ sh'.meta[v].has
            /\ sh'.meta[v].dist = alt
            /\ sh'.meta[v].prev = cur.u
            /\ Item(sh.meta[v].dist, v) \in DOMAIN Contents(sh.kind, sh.queue)
            /\ Contents(sh.kind, sh'.queue) =
                  BagAdd(BagRemove(Contents(sh.kind, sh.queue), Item(sh.meta[v].dist, v)),
                         Item(alt, v))
       ELSE sh' = sh

\* C22: in the Search and OwnedLookup shells the first explore of a vertex
\* pushes it once and records (alt, from); a later explore with alt < dist
\* sets dist, prev and the key in the queue together; one with alt >= dist
\* changes nothing; no step raises a distance, pop_min leaves meta alone, and
\* the dist and prev of an emitted vertex never change.
C22_DistOnlyLowered ==
    [][sh.kind \in {"Search", "OwnedLookup"} =>
          /\ pc = "explore" =>
                Forward_explores(get_neighbors(graph, cur.u)[idx + 1].to,
                                 cur.dist + get_neighbors(graph, cur.u)[idx + 1].weight)
          /\ pc = "pop" => sh'.meta = sh.meta
          /\ \A v \in Vertices :
                /\ sh.meta[v].has => sh'.meta[v].has /\ sh'.meta[v].dist <= sh.meta[v].dist
                /\ v \in EmittedValues => sh'.meta[v] = sh.meta[v]]_vars

\* a vertex first reached by an edge from the source has just been lowered
\* from another vertex
C22_Witness ==
    /\ sh.kind \in {"Search", "OwnedLookup"}
    /\ pc \in {"pop", "explore"}
    /\ tgt = UNDEFINED
    /\ idx >= 1
    /\ cur.u # src
    /\ get_neighbors(graph, cur.u)[idx].to \notin EmittedValues
    /\ sh.meta[get_neighbors(graph, cur.u)[idx].to].prev = cur.u
    /\ \E i \in 1..Len(graph[src]) :
          /\ graph[src][i].to = get_neighbors(graph, cur.u)[idx].to
          /\ graph[src][i].weight > sh.meta[get_neighbors(graph, cur.u)[idx].to].dist

\* the keys pushed or decreased to for the vertex emitted at position p before
\* its pop: 0 for the source, and the sum for every edge into it from a vertex
\* emitted earlier (the driver explores every edge of a vertex before the next pop)
KeysFor(p) ==
    (IF emitted[p].value = src THEN {0} ELSE {})
    \cup UNION {{emitted[i].key + w : w \in EdgeWeights(graph, emitted[i].value, emitted[p].value)} :
                   i \in 1..(p - 1)}

\* C23: whenever pop_min returns (key, v), key is the distance meta records
\* for v and the least key pushed or decreased to for v before; once every
\* vertex with an entry has been emitted, pop_min returns None whatever
\* items are left in the queue.
C23_QueueMetaAgree ==
    /\ \A p \in 1..Len(emitted) :
          /\ get_dist(sh, emitted[p].value) = [some |-> TRUE, dist |-> emitted[p].key]
          /\ emitted[p].key = SetMin(KeysFor(p))
    /\ (pc = "pop" /\ \A v \in Vertices : sh.meta[v].has => v \in EmittedValues) =>
          ~pop_min(sh).some

\* every vertex reached has been emitted, one of them with a key below the
\* first one pushed for it, and items are left in the queue
C23_Witness ==
    /\ pc = "pop"
    /\ tgt = UNDEFINED
    /\ Len(emitted) = 3
    /\ \A v \in Vertices : sh.meta[v].has => v \in EmittedValues
    /\ sh.kind \in {"NoLookupList", "NoLookupHeap"}
    /\ sh.queue.inner # << >>
    /\ \E p \in 1..Len(emitted) : Cardinality(KeysFor(p)) >= 2

\* C24: sp_bi returns None only when a shell ran empty with no candidate
\* recorded: whenever a candidate was recorded (path_len below u32::MAX) the
\* run ends with Some, the distance returned is path_len, and path_len, the
\* least candidate so far, never rises.
C24_NoneOnlyWithoutCandidate ==
    /\ [](pc = "done" =>
             /\ path_len # U32Max => result.some
             /\ result.some => result.dist = path_len)
    /\ [][path_len' <= path_len]_vars

\* C25: the stop rule of sp_bi never fires too early: whenever sp_bi returns
\* Some((d, _)), the graph has no path from s to t shorter than d.
C25_StopNotEarly ==
    (pc = "done" /\ result.some) =>
        /\ ShortestDist(graph, src)[tgt] # Inf
        /\ result.dist <= ShortestDist(graph, src)[tgt]

\* the route r walks the predecessor links from v to the source: it starts at
\* v, each vertex on it has a usable entry whose prev is the next one, only the
\* last one links to itself, the last one is the source, no vertex comes twice
route_to_source(r, v) ==
    /\ r.some
    /\ r.path # << >>
    /\ r.path[1] = v
    /\ r.path[Len(r.path)] = src
    /\ sh.meta[src].prev = src
    /\ \A i \in 1..Len(r.path) : get_meta(sh, r.path[i]).some
    /\ \A i \in 1..(Len(r.path) - 1) :
         /\ sh.meta[r.path[i]].prev = r.path[i + 1]
         /\ r.path[i] # src
    /\ \A i, j \in 1..Len(r.path) : r.path[i] = r.path[j] => i = j

\* C26: the predecessor links of a shell hold no cycle but the source's link
\* to itself: get_path(v) ends for every v, is the chain of links from v to
\* the source when v has a usable entry (every vertex on the chain then has
\* one), and is None exactly when v has none.
C26_PrevAcyclic ==
    \A v \in Vertices :
        /\ get_path(sh, v).fault = "ok"
        /\ get_meta(sh, v).some => route_to_source(get_path(sh, v), v)
        /\ ~get_meta(sh, v).some => ~get_path(sh, v).some

\* a shell that does not know distances before they are final holds an entry
\* that is not usable yet, next to a vertex two links away from the source
C26_Witness ==
    /\ sh.kind \in {"NoLookupList", "NoLookupHeap"}
    /\ tgt = UNDEFINED
    /\ \E v \in Vertices : sh.meta[v].has /\ ~sh.meta[v].some /\ ~get_path(sh, v).some
    /\ \E v \in Vertices : Len(get_path(sh, v).path) = 2

\* the vector v without its element at position p (1-based)
Vec_without(v, p) == SubSeq(v, 1, p - 1) \o SubSeq(v, p + 1, Len(v))

\* keys do not rise from front to back
sorted_descending(v) == \A i \in 1..(Len(v) - 1) : v[i].key >= v[i + 1].key

\* the step from vector v to vector w made by the call c
SortetList_step(v, w, c) ==
    IF c.op = "push"
    THEN \E p \in 1..Len(w) : w[p] = Item(c.key, c.value) /\ Vec_without(w, p) = v
    ELSE IF v = << >>
         THEN w = << >> /\ ~c.some
         ELSE /\ w = SubSeq(v, 1, Len(v) - 1)
              /\ c.some
              /\ Item(c.key, c.value) = v[Len(v)]

\* C27: the vector of a SortetList is sorted by key, not rising from front to
\* back, after from and after every push and pop, so its last element has a
\* least key; push puts one element in and leaves the others in their order,
\* pop takes exactly the last element.
C27_ListSorted ==
    /\ [](pq.kind = "NoLookupList" =>
            /\ sorted_descending(pq.queue.inner)
            /\ \A i \in 1..Len(pq.queue.inner) :
                 pq.queue.inner[Len(pq.queue.inner)].key <= pq.queue.inner[i].key)
    /\ [][pq.kind = "NoLookupList" =>
            SortetList_step(pq.queue.inner, pq'.queue.inner, last')]_vars

\* a push has put an item between a greater and a smaller key, next to an
\* item of its own key
C27_Witness ==
    /\ pq.kind = "NoLookupList"
    /\ last.op = "push"
    /\ Len(pq.queue.inner) >= 4
    /\ pq.queue.inner[1].key > last.key
    /\ pq.queue.inner[Len(pq.queue.inner)].key < last.key
    /\ \E i \in 1..(Len(pq.queue.inner) - 1) :
         /\ pq.queue.inner[i].key = last.key
         /\ pq.queue.inner[i + 1].key = last.key
         /\ pq.queue.inner[i].value # pq.queue.inner[i + 1].value

\* node n of the arena ns is not above its parent: it has none, or its key is
\* at least the parent's
above_parent(ns, n) == ns[n].parent # 0 => ns[n].key >= ns[ns[n].parent].key

\* C28: after every push, pop and decrease_key (lowering the key of an item
\* in the heap) the pairing heap is heap-ordered: no node has a key below its
\* parent's, in main and in the trees of the aux list.
C28_HeapOrdered ==
    (pq.kind = "Search" /\ fault = "ok") =>
        \A n \in PairingHeap_nodes(pq.queue) : above_parent(pq.queue.nodes, n)

\* decrease_key has cut a node that has a child out from under its parent,
\* with a key below the key of the root of main
C28_Witness ==
    /\ pq.kind = "Search"
    /\ pc = "heap"
    /\ last.op = "decrease_key"
    /\ held[last.node].deep
    /\ pq.queue.aux = last.node
    /\ pq.queue.nodes[last.node].child # 0
    /\ pq.queue.main # 0
    /\ pq.queue.nodes[last.node].key < pq.queue.nodes[pq.queue.main].key

\* the sibling list that starts at node n: n, n.next, n.next.next, ...; fuel
\* bounds the walk on a list that runs into itself
RECURSIVE sibling_list(_, _, _)
sibling_list(ns, n, fuel) ==
    IF n = 0 \/ fuel = 0 THEN << >>
    ELSE << n >> \o sibling_list(ns, ns[n].next, fuel - 1)

SeqRange(s) == {s[i] : i \in 1..Len(s)}

\* the children of node p, leftmost first
children(ns, p) == sibling_list(ns, ns[p].child, Len(ns))

\* the number of links that lead to node n: from main, from aux, and the
\* child and next links of the nodes in `from`
links_to(h, from, n) ==
    (IF h.main = n THEN 1 ELSE 0) + (IF h.aux = n THEN 1 ELSE 0)
    + Cardinality({m \in from : h.nodes[m].child = n})
    + Cardinality({m \in from : h.nodes[m].next = n})

\* the pointers of heap h fit together; popped is the set of nodes pop returned
links_consistent(h, popped) ==
    /\ \A x, p \in 1..Len(h.nodes) :
         h.nodes[x].parent = p <=> x \in SeqRange(children(h.nodes, p))
    /\ h.main # 0 => h.nodes[h.main].parent = 0 /\ h.nodes[h.main].next = 0
    /\ \A a \in SeqRange(sibling_list(h.nodes, h.aux, Len(h.nodes))) :
         h.nodes[a].parent = 0
    /\ \A n \in PairingHeap_nodes(h) : links_to(h, PairingHeap_nodes(h), n) = 1
    /\ \A n \in popped :
         /\ h.nodes[n].parent = 0
         /\ h.nodes[n].child = 0
         /\ n \notin PairingHeap_nodes(h)

\* C29: after every push, pop and decrease_key the pointers of the pairing
\* heap fit together: x has parent p exactly when x is in the child list of
\* p; the root of main and the members of aux have no parent; the root of
\* main has no next sibling; every node in the heap is reached by exactly one
\* link, so no list runs into itself; a node pop returned has no parent, no
\* child and is not in the heap.
C29_LinksConsistent ==
    (pq.kind = "Search" /\ fault = "ok") =>
        links_consistent(pq.queue, {n \in 1..Len(held) : ~held[n].live})

\* the sequence s without the element x
Seq_without(s, x) == SelectSeq(s, LAMBDA y : y # x)

\* heap a is heap b after decrease_key(n, key) on a node under parent p: n
\* with its subtree is out of p's child list, the other children of p keep
\* their order, n heads aux
spliced_out(b, a, n, p) ==
    /\ children(a.nodes, p) = Seq_without(children(b.nodes, p), n)
    /\ \A m \in (1..Len(b.nodes)) \ {n, p} : children(a.nodes, m) = children(b.nodes, m)
    /\ a.aux = n
    /\ sibling_list(a.nodes, a.aux, Len(a.nodes))
         = << n >> \o sibling_list(b.nodes, b.aux, Len(b.nodes))

\* heap a is heap b after decrease_key(n, key)
decrease_key_effect(b, a, n, key) ==
    /\ Len(a.nodes) = Len(b.nodes)
    /\ a.main = b.main
    /\ a.nodes[n].key = key
    /\ a.nodes[n].parent = 0
    /\ a.nodes[n].id = b.nodes[n].id
    /\ children(a.nodes, n) = children(b.nodes, n)
    /\ \A m \in (1..Len(b.nodes)) \ {n} :
         /\ a.nodes[m].key = b.nodes[m].key
         /\ a.nodes[m].parent = b.nodes[m].parent
         /\ a.nodes[m].id = b.nodes[m].id
    /\ PairingHeap_nodes(a) = PairingHeap_nodes(b)
    /\ IF b.nodes[n].parent = 0
       THEN a = [b EXCEPT !.nodes[n].key = key]
       ELSE spliced_out(b, a, n, b.nodes[n].parent)

C31_NoItemLost ==
    pq.kind = "Search" =>
        /\ fault = "ok"
        /\ \A n \in 1..Len(held) : held[n].live <=> n \in PairingHeap_nodes(pq.queue)
        /\ \A n \in PairingHeap_nodes(pq.queue) :
             links_to(pq.queue, PairingHeap_nodes(pq.queue), n) = 1
        /\ (last.op = "pop" /\ last.some) =>
             /\ last.key = held[last.node].key
             /\ last.value = held[last.node].value

\* C32: PairingHeap::is_empty is true exactly when the heap holds no item,
\* that is when the next pop returns None, also for a heap whose main is
\* empty and whose aux list holds items pushed after the last pop.
C32_IsEmptyExact ==
    (pq.kind = "Search" /\ pc = "heap") =>
        /\ PairingHeap_is_empty(pq.queue) <=> PairingHeap_nodes(pq.queue) = {}
        /\ PairingHeap_is_empty(pq.queue) <=> ~PairingHeap_pop(pq.queue).some

\* the lookup of an addressable heap agrees with its array: the vertex at
\* index i (0-based) is looked up at i
lookup_agrees(inner, lookup) ==
    \A i \in 0..(Len(inner) - 1) : lookup[At(inner, i).value] = i

\* the vertices the array of a heap holds
InHeap(inner) == {inner[i].value : i \in 1..Len(inner)}

heap_property(k, inner) ==
    \A i \in 1..(Len(inner) - 1) : At(inner, (i - 1) \div k).key <= At(inner, i).key

explore_uses_alt(oh, nh, from, e) ==
    IF ~oh.seen[e.to] /\ oh.dist[from] + e.weight < oh.dist[e.to]
    THEN /\ nh.dist[e.to] = oh.dist[from] + e.weight
         /\ nh.prev[e.to] = from
    ELSE nh = oh

\* C35: explore(from, e) of the addressable heap of implicit_heaps.rs works
\* with alt = dist(from) + e.weight whatever dist(from) is: it sets
\* dist(e.to) = alt and prev(e.to) = from when e.to is not expanded and
\* alt < dist(e.to), and changes nothing otherwise.
C35_ExploreUsesAlt ==
    [][(pq.kind = "ImplicitHeap" /\ last'.op = "explore" /\ calls' = calls + 1) =>
          explore_uses_alt(pq.queue, pq'.queue, cur.u,
                           Neighbor(last'.value, last'.key))]_vars

\* C36: in the simple d-ary heap a vertex pop_min has returned is done with,
\* the source and vertices of distance 0 included: no explore pushes it, no
\* pop_min returns it again, its dist stays the key it was returned with;
\* after a pop_min the root, if any, is of a vertex not returned yet, so the
\* heap is empty exactly when no vertex that was not returned is queued.
C36_ReturnedOnce ==
    (pq.kind = "ImplicitHeapSimple" /\ fault = "ok") =>
        /\ \A i, j \in 1..Len(emitted) : emitted[i].value = emitted[j].value => i = j
        /\ \A p \in 1..Len(emitted) : pq.queue.dist[emitted[p].value] = emitted[p].key
        /\ (last.op = "explore" /\ last.value \in EmittedValues) =>
              OldContents(pq.kind, pq.queue) = last.before
        /\ last.op = "pop_min" =>
              /\ pq.queue.inner # << >> => pq.queue.inner[1].value \notin EmittedValues
              /\ pq.queue.inner = << >> <=> InHeap(pq.queue.inner) \ EmittedValues = {}

\* the index in swaps of tile (i, j)
TileOf(i, j) == i * num_blocks + j

\* the k of the round the run is in: 0 in the first round, the k of pass k
\* of the loop after it
phase_k == IF phase.round = 0 THEN 0 ELSE phase.round - 1

\* the tile files a step wrote to
Changed == {x \in 0..(num_blocks * num_blocks - 1) : swaps'[x + 1].data # swaps[x + 1].data}

\* the passes of `for k in 0..num_blocks` the run has begun
PassesBegun == {k \in 0..(num_blocks - 1) : \E p \in 1..Len(phase.log) :
                   phase.log[p] = Ev(k + 1, "pass", 0)}

\* the passes that stored their diagonal tile
DiagStored == {k \in 0..(num_blocks - 1) : \E p \in 1..Len(phase.log) :
                  phase.log[p] = Ev(k + 1, "diag", 0)}

\* C37: in phase k of warshall_floyd every recomputed tile goes back to the
\* tile it came from: W_kk to tile (k, k), W_kj to (k, j), W_ik to (i, k),
\* W_ij to (i, j) with i and j other than k; a step writes one tile, its own;
\* and a pass that has begun has stored its diagonal tile when the run ends.
C37_TilesWrittenBack ==
    /\ [][pc = "wf" =>
            /\ Cardinality(Changed) <= 1
            /\ phase.stage = "diag" => Changed \subseteq {TileOf(phase_k, phase_k)}
            /\ phase.stage = "j" =>
                  Changed \subseteq {TileOf(phase_k, j) : j \in (0..(num_blocks - 1)) \ {phase_k}}
            /\ phase.stage = "i" =>
                  Changed \subseteq {TileOf(i, j) : i \in (0..(num_blocks - 1)) \ {phase_k},
                                                    j \in 0..(num_blocks - 1)}]_vars
    /\ [](pc \in {"done", "wf_done"} => PassesBegun \subseteq DiagStored)

\* read_exact on tile file x gives the whole block written to it last, the
\* one at the end of the file
tile_read_whole(rd, f) ==
    /\ rd.fault = "ok"
    /\ rd.cells = SubSeq(f.data, Len(f.data) - TileLen + 1, Len(f.data))

\* C38: every read of a tile file in warshall_floyd (first round, passes of
\* the loop, final merge) gives the whole block written to that tile last: it
\* starts where that block starts, not at the cursor an earlier write or read
\* left, and does not fail.
C38_ReadsWhole ==
    pc = "wf" =>
        /\ (phase.stage = "diag" /\ phase.round >= 1 /\ phase.round - 1 < num_blocks) =>
              tile_read_whole(swaps_read(swaps, TileOf(phase_k, phase_k)),
                              swaps[TileOf(phase_k, phase_k) + 1])
        /\ (phase.stage = "diag" /\ phase.round - 1 = num_blocks) =>
              wf_collect(Collected(swaps, NoWriter, "ok"), 0).fault = "ok"
        /\ \A t \in 1..Len(tasks) :
              /\ (phase.stage = "j" /\ phase.round >= 1 /\ tasks[t].at = "start") =>
                    tile_read_whole(swaps_read(swaps, TileOf(phase_k, tasks[t].id)),
                                    swaps[TileOf(phase_k, tasks[t].id) + 1])
              /\ (phase.stage = "i" /\ phase.round >= 1 /\ tasks[t].at = "start") =>
                    tile_read_whole(swaps_read(swaps, TileOf(tasks[t].id, phase_k)),
                                    swaps[TileOf(tasks[t].id, phase_k) + 1])
              /\ (phase.stage = "i" /\ tasks[t].at = "inner") =>
                    tile_read_whole(swaps_read(swaps, tasks[t].j), swaps[tasks[t].j + 1])

\* --------------------------------------------------------------------- C39
\* the number of items the queue of shell s holds
QueueLen(s) ==
    IF s.kind = "None" THEN 0
    ELSE IF s.kind = "Search" THEN Cardinality(PairingHeap_nodes(s.queue))
    ELSE Len(s.queue.inner)

\* the vertices the queue of shell s holds an item of
QueueValues(s) == IF s.kind = "None" THEN {} ELSE {x.value : x \in DOMAIN Contents(s.kind, s.queue)}

\* pop_min of shell s has returned v
accepted(s, v) ==
    IF s.kind \in {"Search", "OwnedLookup"}
    THEN s.meta[v].has /\ v \notin QueueValues(s)
    ELSE s.meta[v].has /\ s.meta[v].some

\* the step from shell s to shell t is a pop_min that returns v for the first time
accepts_first(s, t, v) ==
    /\ ~accepted(s, v)
    /\ accepted(t, v)
    /\ v \in QueueValues(s)

\* the step from shell s to shell t pushes at most one item, and only as the
\* explore of the neighbor `to`; Search and OwnedLookup push a vertex only
\* when it has no entry, and no entry is ever dropped or unsettled
pushes_bounded(s, t, exploring, to) ==
    /\ QueueLen(t) <= QueueLen(s) + 1
    /\ QueueLen(t) > QueueLen(s) =>
          /\ exploring
          /\ s.kind \in {"Search", "OwnedLookup"} => ~s.meta[to].has /\ t.meta[to].has
    /\ \A v \in Vertices :
          /\ s.meta[v].has => t.meta[v].has
          /\ accepted(s, v) => accepted(t, v)

\* the neighbor the driver explores next on the source side / the target side
fwd_to == IF pc \in {"explore", "naiv_explore", "bi_fwd"}
          THEN get_neighbors(graph, cur.u)[idx + 1].to ELSE UNDEFINED
bwd_to == IF pc = "bi_bwd" THEN get_neighbors(back, cur2.u)[idx + 1].to ELSE UNDEFINED

\* the number of edges leaving the vertices emitted at positions 1..n
RECURSIVE LeavingEmitted(_)
LeavingEmitted(n) ==
    IF n = 0 THEN 0 ELSE Len(get_neighbors(graph, emitted[n].value)) + LeavingEmitted(n - 1)

\* the driver has returned or panicked
Ended == pc = "done" \/ (pc = "naiv_done" /\ fault # "ok")

\* one step of a driver: pushes, first acceptances, explores after a pop
driver_step ==
    /\ pc # "naiv_done" =>
          /\ pushes_bounded(sh, sh', pc \in {"explore", "naiv_explore", "bi_fwd"}, fwd_to)
          /\ sh2.kind # "None" => pushes_bounded(sh2, sh2', pc = "bi_bwd", bwd_to)
    /\ Len(emitted') = Len(emitted) + 1 =>
          /\ emitted'[Len(emitted')].value \notin EmittedValues
          /\ accepts_first(sh, sh', emitted'[Len(emitted')].value)
    /\ (pc = "bi_pop" /\ pc' # "done") => accepts_first(sh2, sh2', cur2'.u)
    /\ pc \in {"explore", "naiv_explore", "bi_fwd"} =>
          /\ cur.u = emitted[Len(emitted)].value
          /\ accepted(sh, cur.u)
          /\ idx < Len(get_neighbors(graph, cur.u))
    /\ pc = "bi_bwd" =>
          /\ accepted(sh2, cur2.u)
          /\ idx < Len(get_neighbors(back, cur2.u))

\* the pushes made so far on the source side, counted: every item pushed is
\* in the queue or was popped
pushes_counted ==
    /\ sh.kind \in {"NoLookupList", "NoLookupHeap"} =>
          QueueLen(sh) + Len(emitted) <= 1 + LeavingEmitted(Len(emitted))
    /\ sh.kind \in {"Search", "OwnedLookup"} =>
          QueueLen(sh) + Len(emitted) = Cardinality({v \in Vertices : sh.meta[v].has})

\* the loop has ended on an empty queue
drained ==
    /\ (pc = "done" /\ tgt = UNDEFINED) => fault = "ok" /\ QueueLen(sh) = 0
    /\ (pc = "naiv_done" /\ fault = "ok" /\ ~naiv.some) => QueueLen(sh) = 0
    /\ (pc = "done" /\ tgt # UNDEFINED /\ fault = "ok" /\ ~result.some) =>
          QueueLen(sh) = 0 \/ QueueLen(sh2) = 0

\* C39: sssp, sp_naiv and sp_bi end on every graph for every shell: pop_min
\* accepts each vertex at most once, neighbors are explored only of the vertex
\* accepted last, every push is the explore of one edge leaving an emitted
\* vertex (NoLookup: at most 1 + that many pushes; Search and OwnedLookup: at
\* most one push per vertex), no loop runs on for ever, and a loop that ends
\* without a return ends on an empty queue.
C39_DriversTerminate ==
    /\ [][driver_step]_vars
    /\ [](pushes_counted /\ drained /\ fault # "hang")
    /\ <>Ended

\* sssp on a NoLookup shell has ended on a graph with a cycle through the
\* source; an item pushed for an emitted vertex was dropped
C39_Witness ==
    /\ pc = "done"
    /\ tgt = UNDEFINED
    /\ sh.kind \in {"NoLookupList", "NoLookupHeap"}
    /\ Len(emitted) = 2
    /\ \E i \in 1..Len(get_neighbors(graph, emitted[2].value)) :
          get_neighbors(graph, emitted[2].value)[i].to = src
    /\ Len(emitted) < 1 + LeavingEmitted(Len(emitted))

\* --------------------------------------------------------------------- C40
\* C40: apsp completes and writes a full row for every computed source also
\* when some vertex cannot be reached from it: no row task aborts, the
\* operation returns the matrix, and every cell of every computed row can be
\* read from it.
C40_ApspCompletes ==
    /\ fault = "ok"
    /\ \A t \in 1..Len(tasks) : tasks[t].pc # "panicked"
    /\ pc # "done"
    /\ pc = "apsp_done" =>
          \A r \in 0..((size \div NERF_FACTOR) - 1) : \A c \in 0..(size - 1) :
              CostMatrix_get(cost, r + 1, c + 1).ok
=============================================================================
